---- MODULE Spec2Model ----
(***************************************************************************)
(* A model of the dispatch-table glue of the Telegram bot template:        *)
(*   - UpdateProcessor (src/telegram_api/core.py) and the TelegramUpdate   *)
(*     model's own type tag (src/telegram_api/models/telegram_models.py);  *)
(*   - RateLimiter and StateMachine (src/telegram_api/utils/__init__.py);  *)
(*   - UserService.get_or_create_user and                                  *)
(*     ChatMemberService.update_chat_member (services/database_service.py);*)
(*   - CommandHandler and MessageHandler (src/telegram_api/handlers);      *)
(*   - ConversationMemory (services/memory_service.py);                    *)
(*   - AgentManager (src/agents/manager.py);                               *)
(*   - TelegramBot's lifecycle and its allowed_users test (core.py);       *)
(*   - KeyboardBuilder, MessageFormatter.truncate_text,                    *)
(*     Validators.is_valid_token and AsyncLock (utils/__init__.py).        *)
(* The components do not share state, so each has its own specification   *)
(* over its own group of variables; the other groups stay at their idle    *)
(* values.                                                                 *)
(***************************************************************************)
EXTENDS Integers, Sequences, FiniteSets, TLC

VARIABLES
    \* UpdateProcessor
    handlers,      \* self.handlers: update type -> list of handlers
    regs,          \* number of register_handler calls made so far
    update,        \* the telegram.Update handed to process_update
    called,        \* the handlers awaited by the last process_update, in order
    puResult,      \* what the last process_update returned ("none": no call yet)
    coreType,      \* last result of UpdateProcessor._get_update_type
    modelType,     \* last result of TelegramUpdate.get_update_type
    \* RateLimiter
    now,           \* asyncio.get_event_loop().time(), in ticks
    requests,      \* self.requests: key -> list of request times
    granted,       \* history: key -> times of the check_limit calls that returned True
    rlRet,         \* the last check_limit call: its key and what it returned
    \* StateMachine
    smAdded,       \* the keys of self.states: the states added with add_state
    smTable,       \* self.states: state -> trigger -> target
    current_states, \* self.current_states: key -> state
    smOp,          \* the last StateMachine call: method, key, argument
    smRet,         \* what it returned, or the exception it raised
    smTick,        \* flips at every StateMachine call
    \* UserService.get_or_create_user
    dbService,     \* what UserService was constructed with
    users,         \* the committed rows of the users table
    gcPc,          \* call -> where the call is
    gcUser,        \* call -> its telegram_user argument
    gcFound,       \* call -> id of the row its select returned (0: None)
    gcRet,         \* call -> what it returned or raised, and the row's id
    \* CommandHandler / MessageHandler
    text,          \* update.message.text, a sequence of characters
    fromUser,      \* update.message.from_user.id (0: no from_user)
    commands,      \* self.commands: command -> handler
    admin_commands, \* CommandHandler.admin_commands: command -> handler
    admin_users,   \* CommandHandler.admin_users
    middleware,    \* MessageHandler.middleware: list of middleware
    hRet,          \* what the last handle call returned ("None": no call yet)
    invoked,       \* the command handlers it awaited, with their args
    sent,          \* the messages the handler class itself sent
    mwRun,         \* the number of middleware it awaited
    \* ConversationMemory
    conversation_buffer, \* self.conversation_buffer: user -> list of messages
    memPc,         \* task -> where its add_message / flush_conversation call is
    msgCount,      \* user -> the number of add_message calls made for the user
    delivered,     \* user -> the batches add_telegram_conversation stored
    flushFailed,    \* user -> the last flush that ended for the user raised
    memService,    \* what ConversationMemory was constructed with
    flushedUpTo,   \* history: user -> messages added when a flush last succeeded
    \* AgentManager
    agents,        \* self.agents: the dict, as its (name, agent) items in order
    is_active,     \* agent -> its is_active flag
    regLog,        \* history: the agents register_agent accepted, in order
    untouched,     \* history: initialize returned and nothing was done since
    amOp,          \* the last AgentManager call
    asked,         \* the agents the last route_message awaited, in order
    responses,      \* the agents whose response the last route_message returned
    \* TelegramBot (lifecycle)
    application,   \* self.application (None until initialize builds it)
    botMode,       \* self.config.mode
    bot_is_running, \* self._is_running
    appState,      \* the wrapped Application: which of its parts are up
    botOp,         \* the last TelegramBot call and what it returned
    lifecycle,      \* history: a start returned True and no stop returned since
    initializedOk,  \* history: an initialize call returned True
    \* KeyboardBuilder
    buttons,       \* self.buttons: the rows of inline buttons
    reply_buttons, \* self.reply_buttons: the rows of reply buttons
    kbLog,         \* history: the calls made on the builder, in order
    built,          \* what the last build_inline / build_reply returned
    \* MessageFormatter.truncate_text
    ttText,        \* its text argument, a sequence of characters
    ttMax,         \* its max_length argument
    ttSuffix,      \* its suffix argument
    ttResult,      \* what it returned (done: it was called)
    \* Validators.is_valid_token
    token,         \* its token argument, as runs of characters of one class
    tokResult,      \* what it returned ("None": not called yet)
    \* TelegramBot (the handlers it registers with the Application)
    allowed_users, \* self.config.allowed_users
    handled,       \* the number of updates the Application delivered
    passed,        \* the updates passed to update_processor.process_update
    replied,        \* the replies the handlers sent, in order
    \* AsyncLock
    locks,         \* self._locks: key -> lock object (0: the key is not in it)
    lockState,     \* lock object -> asyncio.Lock state: locked, waiters
    nextLock,      \* the number of asyncio.Lock objects created
    lkPc,          \* task -> where its with_lock call is, its key and lock
    \* ChatMemberService.update_chat_member
    cmService,     \* what ChatMemberService was constructed with
    chat_members,  \* the committed rows of the chat_members table
    ucPc,          \* call -> where the call is
    ucArgs,        \* call -> its chat_id, user_id and status arguments
    ucFound,       \* call -> the row its select returned (id 0: None)
    ucRet,         \* call -> what it returned or raised
    ucCount,       \* the number of update_chat_member calls made
    lastStatus     \* history: (chat_id, user_id) -> the status last committed

dispatchVars == <<handlers, regs, update, called, puResult, coreType, modelType>>
rateVars == <<now, requests, granted, rlRet>>
smVars == <<smAdded, smTable, current_states, smOp, smRet, smTick>>
userVars == <<dbService, users, gcPc, gcUser, gcFound, gcRet>>
handlerVars == <<text, fromUser, commands, admin_commands, admin_users,
                 middleware, hRet, invoked, sent, mwRun>>
memVars == <<conversation_buffer, memPc, msgCount, delivered, flushFailed,
             memService, flushedUpTo>>

agentVars == <<agents, is_active, regLog, untouched, amOp, asked, responses>>

botVars == <<application, botMode, bot_is_running, appState, botOp, lifecycle,
             initializedOk>>

kbVars == <<buttons, reply_buttons, kbLog, built>>

truncVars == <<ttText, ttMax, ttSuffix, ttResult>>
tokenVars == <<token, tokResult>>

gateVars == <<allowed_users, handled, passed, replied>>

lockVars == <<locks, lockState, nextLock, lkPc>>

memberVars == <<cmService, chat_members, ucPc, ucArgs, ucFound, ucRet, ucCount,
                lastStatus>>

\* Every group but the named one: what an action of that group leaves alone.
nonDispatch == <<rateVars, smVars, userVars, handlerVars, memVars, agentVars,
                 botVars, kbVars, truncVars, tokenVars, gateVars, lockVars,
                 memberVars>>
nonRate == <<dispatchVars, smVars, userVars, handlerVars, memVars, agentVars,
             botVars, kbVars, truncVars, tokenVars, gateVars, lockVars,
             memberVars>>
nonSm == <<dispatchVars, rateVars, userVars, handlerVars, memVars, agentVars,
           botVars, kbVars, truncVars, tokenVars, gateVars, lockVars,
           memberVars>>
nonUser == <<dispatchVars, rateVars, smVars, handlerVars, memVars, agentVars,
             botVars, kbVars, truncVars, tokenVars, gateVars, lockVars,
             memberVars>>
nonHandler == <<dispatchVars, rateVars, smVars, userVars, memVars, agentVars,
                botVars, kbVars, truncVars, tokenVars, gateVars, lockVars,
                memberVars>>
nonMem == <<dispatchVars, rateVars, smVars, userVars, handlerVars, agentVars,
            botVars, kbVars, truncVars, tokenVars, gateVars, lockVars,
            memberVars>>
nonAgent == <<dispatchVars, rateVars, smVars, userVars, handlerVars, memVars,
              botVars, kbVars, truncVars, tokenVars, gateVars, lockVars,
              memberVars>>
nonBot == <<dispatchVars, rateVars, smVars, userVars, handlerVars, memVars,
            agentVars, kbVars, truncVars, tokenVars, gateVars, lockVars,
            memberVars>>
nonKb == <<dispatchVars, rateVars, smVars, userVars, handlerVars, memVars,
           agentVars, botVars, truncVars, tokenVars, gateVars, lockVars,
           memberVars>>
nonTrunc == <<dispatchVars, rateVars, smVars, userVars, handlerVars, memVars,
              agentVars, botVars, kbVars, tokenVars, gateVars, lockVars,
              memberVars>>
nonToken == <<dispatchVars, rateVars, smVars, userVars, handlerVars, memVars,
              agentVars, botVars, kbVars, truncVars, gateVars, lockVars,
              memberVars>>
nonGate == <<dispatchVars, rateVars, smVars, userVars, handlerVars, memVars,
             agentVars, botVars, kbVars, truncVars, tokenVars, lockVars,
             memberVars>>
nonLock == <<dispatchVars, rateVars, smVars, userVars, handlerVars, memVars,
             agentVars, botVars, kbVars, truncVars, tokenVars, gateVars,
             memberVars>>
nonMember == <<dispatchVars, rateVars, smVars, userVars, handlerVars,
               memVars, agentVars, botVars, kbVars, truncVars, tokenVars,
               gateVars, lockVars>>

vars == <<dispatchVars, rateVars, smVars, userVars, handlerVars, memVars,
          agentVars, botVars, kbVars, truncVars, tokenVars, gateVars,
          lockVars, memberVars>>

None == "None"

(***************************************************************************)
(* RateLimiter                                                              *)
(***************************************************************************)

\* RateLimiter(max_requests, time_window): the parameters of the runs.
MaxRequests == 2
TimeWindow == 3

\* The clock stops here.
MaxTime == 5

RateKeys == {"k1", "k2"}

\* RateLimiter.__init__. A key that is not in self.requests is modelled by
\* the empty list: all three methods treat the two alike.
RateIdle ==
    /\ now = 0
    /\ requests = [k \in RateKeys |-> <<>>]
    /\ granted = [k \in RateKeys |-> <<>>]
    /\ rlRet = [key |-> None, ret |-> FALSE]

\* The list comprehension of check_limit and get_remaining_requests:
\* [t for t in reqs if t > cutoff].
Recent(reqs, cutoff) == SelectSeq(reqs, LAMBDA r : r > cutoff)

\* The limit test with > for >=.
LimitReachedOffByOne(n) == n > MaxRequests

\* check_limit: len(self.requests[key]) >= self.max_requests
LimitReached(n) == n >= MaxRequests

\* RateLimiter.check_limit
CheckLimit(k) ==
    LET kept == Recent(requests[k], now - TimeWindow)
    IN  IF LimitReached(Len(kept))
        THEN /\ requests' = [requests EXCEPT ![k] = kept]
             /\ granted' = granted
             /\ rlRet' = [key |-> k, ret |-> FALSE]
             /\ now' = now
        ELSE /\ requests' = [requests EXCEPT ![k] = Append(kept, now)]
             /\ granted' = [granted EXCEPT ![k] = Append(@, now)]
             /\ rlRet' = [key |-> k, ret |-> TRUE]
             /\ now' = now

\* get_remaining_requests without the cutoff: every stored request counts.
GetRemainingRequestsNoCutoff(k) ==
    IF MaxRequests - Len(requests[k]) > 0
    THEN MaxRequests - Len(requests[k]) ELSE 0

\* RateLimiter.get_remaining_requests
GetRemainingRequests(k) ==
    LET recent == Recent(requests[k], now - TimeWindow)
    IN  IF MaxRequests - Len(recent) > 0 THEN MaxRequests - Len(recent) ELSE 0

\* min(self.requests[key])
MinOf(reqs) ==
    CHOOSE m \in {reqs[i] : i \in DOMAIN reqs} :
        \A i \in DOMAIN reqs : m <= reqs[i]

\* RateLimiter.get_reset_time returns a time (not None).
HasResetTime(k) == requests[k] # <<>>

\* RateLimiter.get_reset_time, when it returns a time.
GetResetTime(k) == MinOf(requests[k]) + TimeWindow

\* The event loop's clock advances.
Tick ==
    /\ now < MaxTime
    /\ now' = now + 1
    /\ UNCHANGED <<requests, granted, rlRet>>
    /\ UNCHANGED nonRate

\* A caller awaits check_limit(k).
CallCheckLimit(k) ==
    /\ CheckLimit(k)
    /\ UNCHANGED nonRate

(***************************************************************************)
(* StateMachine                                                             *)
(***************************************************************************)

\* State names and transition targets: two names and the empty string.
StateNames == {"", "a", "b"}

Triggers == {"go", "back"}

SmKeys == {"u1", "u2"}

\* dict.get(trigger) of a trigger the dict does not hold (Python's None).
NoEntry == "<no entry>"

\* The transitions argument of add_state: a dict from triggers to targets;
\* the runs pass the empty dict and the dicts of one entry.
TransitionDicts ==
    {d \in [Triggers -> StateNames \cup {NoEntry}] :
        Cardinality({t \in Triggers : d[t] # NoEntry}) <= 1}

\* StateMachine.__init__. smTable of a state that was not added is unused.
SmIdle ==
    /\ smAdded = {}
    /\ smTable = [n \in StateNames |-> [t \in Triggers |-> NoEntry]]
    /\ current_states = [k \in SmKeys |-> None]
    /\ smOp = [op |-> None, key |-> None, arg |-> None]
    /\ smRet = None
    /\ smTick = FALSE

\* Python truth of an Optional[str]: None and "" are false.
Truthy(x) == x # None /\ x # NoEntry /\ x # ""

\* StateMachine.add_state
AddState(name, transitions) ==
    /\ smAdded' = smAdded \cup {name}
    /\ smTable' = [smTable EXCEPT ![name] = transitions]
    /\ smOp' = [op |-> "add_state", key |-> None, arg |-> name]
    /\ smRet' = None
    /\ smTick' = ~smTick
    /\ UNCHANGED current_states
    /\ UNCHANGED nonSm

\* set_state that stores the state without looking it up in self.states.
SetStateResultUnchecked(key, name) ==
    [cur |-> [current_states EXCEPT ![key] = name], raised |-> FALSE]

\* The body of StateMachine.set_state: the new current_states, and whether
\* ValueError was raised.
SetStateResult(key, name) ==
    IF name \in smAdded
    THEN [cur |-> [current_states EXCEPT ![key] = name], raised |-> FALSE]
    ELSE [cur |-> current_states, raised |-> TRUE]

\* StateMachine.set_state
SetState(key, name) ==
    /\ current_states' = SetStateResult(key, name).cur
    /\ smRet' = IF SetStateResult(key, name).raised THEN "ValueError" ELSE None
    /\ smOp' = [op |-> "set_state", key |-> key, arg |-> name]
    /\ smTick' = ~smTick
    /\ UNCHANGED <<smAdded, smTable>>
    /\ UNCHANGED nonSm

\* StateMachine.get_state
GetState(key) == current_states[key]

\* self.states.get(current_state, {}).get(trigger)
NextState(cur, trigger) ==
    IF cur \in smAdded THEN smTable[cur][trigger] ELSE NoEntry

\* StateMachine.transition
Transition(key, trigger) ==
    /\ smOp' = [op |-> "transition", key |-> key, arg |-> trigger]
    /\ smTick' = ~smTick
    /\ IF ~Truthy(GetState(key))
       THEN /\ smRet' = "False"
            /\ current_states' = current_states
       ELSE IF Truthy(NextState(GetState(key), trigger))
       THEN \* self.set_state(key, next_state); return True
            /\ current_states' = SetStateResult(key, NextState(GetState(key), trigger)).cur
            /\ smRet' = IF SetStateResult(key, NextState(GetState(key), trigger)).raised
                        THEN "ValueError" ELSE "True"
       ELSE /\ smRet' = "False"
            /\ current_states' = current_states
    /\ UNCHANGED <<smAdded, smTable>>
    /\ UNCHANGED nonSm

\* StateMachine.reset
Reset(key) ==
    /\ current_states' = [current_states EXCEPT ![key] = None]
    /\ smOp' = [op |-> "reset", key |-> key, arg |-> None]
    /\ smRet' = None
    /\ smTick' = ~smTick
    /\ UNCHANGED <<smAdded, smTable>>
    /\ UNCHANGED nonSm

(***************************************************************************)
(* UserService.get_or_create_user                                           *)
(***************************************************************************)

\* The number of get_or_create_user calls of a run; they may overlap.
NumCalls == 2

Calls == 1..NumCalls

TelegramIds == {101, 102}

FirstNames == {"Ann", "Bob"}

\* The telegram_user arguments.
TelegramUsers == [id : TelegramIds, first_name : FirstNames]

NoUser == [id |-> 0, first_name |-> ""]

\* What UserService(db_service) is given: the repository's DatabaseService,
\* whose get_session is a coroutine function, or an object whose
\* get_session() returns the session (an async context manager).
DbServices == {"DatabaseService", "session factory"}

UserIdle ==
    /\ users = {}
    /\ gcPc = [c \in Calls |-> "idle"]
    /\ gcUser = [c \in Calls |-> NoUser]
    /\ gcFound = [c \in Calls |-> 0]
    /\ gcRet = [c \in Calls |-> [out |-> None, row |-> 0]]

\* The rows select(User).where(User.telegram_id == t) returns.
RowsOf(t) == {r \in users : r.telegram_id = t}

\* The next value of the primary key.
NextUserId == Cardinality(users) + 1

\* Column(Integer, unique=True): an INSERT of a second row with the
\* telegram_id of a committed row fails.
UniqueViolated(t) == RowsOf(t) # {}

\* get_or_create_user is called: async with self.db_service.get_session().
\* DatabaseService.get_session is async def, so the call yields a coroutine,
\* which is no async context manager: TypeError.
GcCall(c, tu) ==
    /\ gcPc[c] = "idle"
    /\ gcUser' = [gcUser EXCEPT ![c] = tu]
    /\ IF dbService = "DatabaseService"
       THEN /\ gcPc' = [gcPc EXCEPT ![c] = "done"]
            /\ gcRet' = [gcRet EXCEPT ![c] = [out |-> "TypeError", row |-> 0]]
       ELSE /\ gcPc' = [gcPc EXCEPT ![c] = "select"]
            /\ gcRet' = gcRet
    /\ UNCHANGED <<dbService, users, gcFound>>
    /\ UNCHANGED nonUser

\* await session.execute(select ...); scalar_one_or_none(); then the row is
\* changed in the session, or a new User is added to the session.
GcSelect(c) ==
    /\ gcPc[c] = "select"
    /\ IF Cardinality(RowsOf(gcUser[c].id)) > 1
       THEN /\ gcPc' = [gcPc EXCEPT ![c] = "done"]
            /\ gcRet' = [gcRet EXCEPT ![c] = [out |-> "MultipleResultsFound", row |-> 0]]
            /\ gcFound' = gcFound
       ELSE /\ gcPc' = [gcPc EXCEPT ![c] = "commit"]
            /\ gcRet' = gcRet
            /\ gcFound' = [gcFound EXCEPT ![c] =
                   IF RowsOf(gcUser[c].id) = {} THEN 0
                   ELSE (CHOOSE r \in RowsOf(gcUser[c].id) : TRUE).id]
    /\ UNCHANGED <<dbService, users, gcUser>>
    /\ UNCHANGED nonUser

\* await session.commit(): the UPDATE of the row found, or the INSERT of the
\* new row, which the unique constraint may refuse (IntegrityError).
GcCommit(c) ==
    /\ gcPc[c] = "commit"
    /\ IF gcFound[c] # 0
       THEN /\ users' = {IF r.id = gcFound[c]
                          THEN [r EXCEPT !.first_name = gcUser[c].first_name]
                          ELSE r : r \in users}
            /\ gcPc' = [gcPc EXCEPT ![c] = "refresh"]
            /\ gcRet' = gcRet
            /\ gcFound' = gcFound
       ELSE IF UniqueViolated(gcUser[c].id)
       THEN /\ users' = users
            /\ gcPc' = [gcPc EXCEPT ![c] = "done"]
            /\ gcRet' = [gcRet EXCEPT ![c] = [out |-> "IntegrityError", row |-> 0]]
            /\ gcFound' = gcFound
       ELSE /\ users' = users \cup
                   {[id |-> NextUserId, telegram_id |-> gcUser[c].id,
                     first_name |-> gcUser[c].first_name]}
            /\ gcPc' = [gcPc EXCEPT ![c] = "refresh"]
            /\ gcRet' = gcRet
            /\ gcFound' = [gcFound EXCEPT ![c] = NextUserId]
    /\ UNCHANGED <<dbService, gcUser>>
    /\ UNCHANGED nonUser

\* await session.refresh(user); return user
GcRefresh(c) ==
    /\ gcPc[c] = "refresh"
    /\ gcPc' = [gcPc EXCEPT ![c] = "done"]
    /\ gcRet' = [gcRet EXCEPT ![c] = [out |-> "User", row |-> gcFound[c]]]
    /\ UNCHANGED <<dbService, users, gcUser, gcFound>>
    /\ UNCHANGED nonUser

(***************************************************************************)
(* UpdateProcessor and TelegramUpdate                                       *)
(***************************************************************************)

\* UpdateProcessor.__init__: the 15 keys of self.handlers.
HandlerKeys ==
    {"message", "command", "callback_query", "inline_query", "edited_message",
     "channel_post", "edited_channel_post", "chosen_inline_result",
     "shipping_query", "pre_checkout_query", "poll", "poll_answer",
     "my_chat_member", "chat_member", "chat_join_request"}

\* The order in which UpdateProcessor._get_update_type tests the fields.
CoreOrder ==
    <<"message", "edited_message", "channel_post", "edited_channel_post",
      "callback_query", "inline_query", "chosen_inline_result",
      "shipping_query", "pre_checkout_query", "poll", "poll_answer",
      "my_chat_member", "chat_member", "chat_join_request">>

\* The order in which TelegramUpdate.get_update_type tests the fields.
ModelOrder ==
    <<"message", "edited_message", "channel_post", "edited_channel_post",
      "inline_query", "chosen_inline_result", "callback_query",
      "shipping_query", "pre_checkout_query", "poll", "poll_answer",
      "my_chat_member", "chat_member", "chat_join_request">>

\* The 14 optional payload fields of an update.
UpdateFields == {CoreOrder[i] : i \in DOMAIN CoreOrder}

\* The fields TelegramUpdate.from_telegram_update converts with
\* TelegramMessage.from_telegram_message.
MessageFields ==
    {"message", "edited_message", "channel_post", "edited_channel_post"}

\* What Message.date can be: the datetime python-telegram-bot delivers, or a
\* number (a POSIX timestamp).
DateKinds == {"datetime", "timestamp"}

\* The first field of `order` that is set in `fields`, else `dflt`: an if/elif
\* chain over the fields.
RECURSIVE FirstSet(_, _, _)
FirstSet(order, fields, dflt) ==
    IF order = <<>> THEN dflt
    ELSE IF Head(order) \in fields THEN Head(order)
    ELSE FirstSet(Tail(order), fields, dflt)

\* UpdateProcessor._get_update_type
GetUpdateType(u) == FirstSet(CoreOrder, u.fields, "unknown")

ConvError == "TypeError"

\* A call of from_telegram_update that raised.
Raised == [raised |-> TRUE, fields |-> {}]

\* TelegramMessage.from_telegram_message: datetime.fromtimestamp(message.date)
\* takes a number and raises TypeError for a datetime.
FromTelegramMessage(dateKind) ==
    IF dateKind = "timestamp" THEN "TelegramMessage" ELSE ConvError

\* TelegramUpdate.from_telegram_update: the four message fields are converted
\* when set, the other ten are copied with getattr.
FromTelegramUpdate(u) ==
    IF \E f \in MessageFields \cap u.fields : FromTelegramMessage(u.dateKind) = ConvError
    THEN Raised
    ELSE [raised |-> FALSE, fields |-> {f \in UpdateFields : f \in u.fields}]

\* TelegramUpdate.get_update_type (UpdateType.<X>.value); falls back to MESSAGE.
ModelGetUpdateType(tu) == FirstSet(ModelOrder, tu.fields, "message")

\* The handlers a test registers: hOk returns, hRaise raises an Exception.
HandlerIds == {"hOk", "hRaise"}

HandlerRaises(h) == h = "hRaise"

\* The update types the model passes to register_handler: three keys of the
\* registry (one of them "command") and one that is no key.
RegTypes == {"message", "command", "callback_query", "sticker"}

\* The most register_handler calls in a run.
MaxRegs == 2

\* The most payload fields set in one update of the classification runs.
MaxFields == 2

\* An update: the payload fields that are set, and the kind of Message.date.
UpdatesUpTo(n) ==
    {[fields |-> fs, dateKind |-> d] :
        fs \in {s \in SUBSET UpdateFields : Cardinality(s) <= n}, d \in DateKinds}

\* The for loop of process_update: every handler is awaited; one that raises
\* is logged and the loop continues. The result is the handlers awaited.
RECURSIVE CallHandlers(_)
CallHandlers(hs) ==
    IF hs = <<>> THEN <<>>
    ELSE IF HandlerRaises(Head(hs))
         THEN <<Head(hs)>> \o CallHandlers(Tail(hs))   \* except: log, continue
         ELSE <<Head(hs)>> \o CallHandlers(Tail(hs))

\* UpdateProcessor.__init__, before any update is handed in.
DispatchIdle ==
    /\ handlers = [k \in HandlerKeys |-> <<>>]
    /\ regs = 0
    /\ called = <<>>
    /\ puResult = "none"
    /\ coreType = None
    /\ modelType = None

\* No update yet.
NoUpdate == [fields |-> {}, dateKind |-> "timestamp"]

\* UpdateProcessor.register_handler. The bookkeeping of the last
\* process_update call is cleared: it described the registry as it was.
RegisterHandler(t, h) ==
    /\ regs < MaxRegs
    /\ regs' = regs + 1
    /\ handlers' = IF t \in DOMAIN handlers
                   THEN [handlers EXCEPT ![t] = Append(@, h)]
                   ELSE handlers                       \* logger.warning
    /\ called' = <<>>
    /\ puResult' = "none"
    /\ UNCHANGED <<update, coreType, modelType>>
    /\ UNCHANGED nonDispatch

\* UpdateProcessor.process_update
ProcessUpdate ==
    /\ IF FromTelegramUpdate(update).raised
       THEN \* the outer except: log, return False
            /\ called' = <<>>
            /\ puResult' = "False"
            /\ coreType' = coreType
       ELSE /\ coreType' = GetUpdateType(update)
            /\ IF GetUpdateType(update) \in DOMAIN handlers
               THEN /\ called' = CallHandlers(handlers[GetUpdateType(update)])
                    /\ puResult' = "True"
               ELSE /\ called' = <<>>
                    /\ puResult' = "False"
    /\ UNCHANGED <<handlers, regs, update, modelType>>
    /\ UNCHANGED nonDispatch

\* Both type tags of one update: UpdateProcessor._get_update_type on the
\* telegram.Update, TelegramUpdate.get_update_type on its conversion.
Classify ==
    /\ coreType = None
    /\ coreType' = GetUpdateType(update)
    /\ modelType' = IF FromTelegramUpdate(update).raised
                    THEN ConvError
                    ELSE ModelGetUpdateType(FromTelegramUpdate(update))
    /\ UNCHANGED <<handlers, regs, update, called, puResult>>
    /\ UNCHANGED nonDispatch

(***************************************************************************)
(* CommandHandler and MessageHandler                                        *)
(***************************************************************************)

\* The characters of a message text: the slash, the space, a letter in both
\* cases.
Chars == {"/", " ", "t", "T"}

\* The longest message text of a run.
MaxTextLen == 4

RECURSIVE SeqsUpTo(_, _)
SeqsUpTo(S, n) ==
    IF n = 0 THEN {<<>>}
    ELSE SeqsUpTo(S, n - 1) \cup
         {Append(q, c) : q \in {x \in SeqsUpTo(S, n - 1) : Len(x) = n - 1}, c \in S}

Texts == SeqsUpTo(Chars, MaxTextLen)

IsSpace(c) == c = " "

\* str.lstrip / str.rstrip / str.strip
RECURSIVE LStrip(_)
LStrip(str) ==
    IF str # <<>> /\ IsSpace(Head(str)) THEN LStrip(Tail(str)) ELSE str

RECURSIVE RStrip(_)
RStrip(str) ==
    IF str # <<>> /\ IsSpace(str[Len(str)])
    THEN RStrip(SubSeq(str, 1, Len(str) - 1)) ELSE str

Strip(str) == RStrip(LStrip(str))

\* str.lower
Lower(str) == [i \in DOMAIN str |-> IF str[i] = "T" THEN "t" ELSE str[i]]

\* str.startswith("/")
StartsWithSlash(str) == str # <<>> /\ Head(str) = "/"

\* The index of the first space of str, 0 when it has none.
FirstSpace(str) ==
    IF \E i \in DOMAIN str : str[i] = " "
    THEN CHOOSE i \in DOMAIN str :
             str[i] = " " /\ \A j \in 1..(i - 1) : str[j] # " "
    ELSE 0

\* str.split(" ", 1): one part, or the parts before and after the first space.
SplitOnce(str) ==
    IF FirstSpace(str) = 0 THEN <<str>>
    ELSE <<SubSeq(str, 1, FirstSpace(str) - 1),
           SubSeq(str, FirstSpace(str) + 1, Len(str))>>

\* parts = text[1:].split(" ", 1)
PartsOf(stripped) == SplitOnce(Tail(stripped))

\* command = parts[0].lower()
CommandOf(stripped) == Lower(PartsOf(stripped)[1])

\* The arguments lost: args is always "".
ArgsDropped(stripped) == <<>>

\* args = parts[1] if len(parts) > 1 else ""
ArgsOf(stripped) ==
    IF Len(PartsOf(stripped)) > 1 THEN PartsOf(stripped)[2] ELSE <<>>

\* The commands the runs register (register_command lower-cases them).
CommandNames == {<<"t">>, <<"T">>}

\* The keys self.commands can hold.
CommandKeys == {Lower(n) : n \in CommandNames}

\* No handler under a key of self.commands / self.admin_commands.
NoHandler == "None"

UserIds == {1, 2}

\* The admin_users lists the runs set.
AdminLists == {{}, {1}}

\* What a middleware does: return None, return False, raise.
MiddlewareKinds == {"returns None", "returns False", "raises"}

\* The most add_middleware calls of a run.
MaxMiddleware == 2

\* CommandHandler.__init__ / MessageHandler.__init__, before any message.
HandlerIdle ==
    /\ commands = [k \in CommandKeys |-> NoHandler]
    /\ admin_commands = [k \in CommandKeys |-> NoHandler]
    /\ admin_users = {}
    /\ middleware = <<>>
    /\ hRet = None
    /\ invoked = <<>>
    /\ sent = <<>>
    /\ mwRun = 0

\* The outcome of a handle call.
Outcome(ret, inv, snt, mw) == [ret |-> ret, invoked |-> inv, sent |-> snt, mwRun |-> mw]

\* await handler(update, context, args)
Invocation(h, args) == [handler |-> h, args |-> args]

\* await self.api_service.send_message(message.chat.id, ...)
ErrorReply == [to |-> "message.chat.id", kind |-> "error", body |-> <<>>]
AdminOnlyReply == [to |-> "message.chat.id", kind |-> "admins only", body |-> <<>>]
EchoReply(txt) == [to |-> "message.chat.id", kind |-> "You said", body |-> txt]

\* "command in self.commands" for a dict the model keeps total over CommandKeys.
Registered(dict, command) == command \in DOMAIN dict /\ dict[command] # NoHandler

\* CommandHandler.handle from "Check regular commands" on.
RegularCommand(command, args, inv) ==
    IF Registered(commands, command)
    THEN IF HandlerRaises(commands[command])
         THEN Outcome("False", Append(inv, Invocation(commands[command], args)),
                      <<ErrorReply>>, 0)
         ELSE Outcome("True", Append(inv, Invocation(commands[command], args)),
                      <<>>, 0)
    ELSE Outcome("False", inv, <<>>, 0)

\* The admin test with a missing sender let through.
IsAdminOrMissing(from) == from = 0 \/ from \in admin_users

\* message.from_user and message.from_user.id in self.admin_users
IsAdmin(from) == from # 0 /\ from \in admin_users

\* CommandHandler.handle
CommandHandle(txt, from) ==
    IF txt = <<>> THEN Outcome("False", <<>>, <<>>, 0)
    ELSE IF ~StartsWithSlash(Strip(txt)) THEN Outcome("False", <<>>, <<>>, 0)
    ELSE LET command == CommandOf(Strip(txt))
             args == ArgsOf(Strip(txt))
         IN  IF Registered(admin_commands, command)
             THEN IF IsAdmin(from)
                  THEN IF HandlerRaises(admin_commands[command])
                       THEN \* logged; the regular commands are checked next
                            RegularCommand(command, args,
                                <<Invocation(admin_commands[command], args)>>)
                       ELSE Outcome("True",
                                <<Invocation(admin_commands[command], args)>>, <<>>, 0)
                  ELSE Outcome("True", <<>>, <<AdminOnlyReply>>, 0)
             ELSE RegularCommand(command, args, <<>>)


\* The middleware loop with a middleware that raises taken as one that blocks.
RECURSIVE RunMiddlewareRaiseBlocks(_)
RunMiddlewareRaiseBlocks(mws) ==
    IF mws = <<>> THEN [blocked |-> FALSE, run |-> 0]
    ELSE IF Head(mws) \in {"returns False", "raises"} THEN [blocked |-> TRUE, run |-> 1]
    ELSE [blocked |-> RunMiddlewareRaiseBlocks(Tail(mws)).blocked,
          run |-> 1 + RunMiddlewareRaiseBlocks(Tail(mws)).run]

\* The middleware loop of MessageHandler.handle: how many middleware were
\* awaited and whether one of them returned False. A middleware that raises
\* is logged and the loop goes on.
\* The middleware loop that notes the block and still runs the rest.
RunMiddlewareRunsAll(mws) ==
    [blocked |-> \E i \in DOMAIN mws : mws[i] = "returns False", run |-> Len(mws)]

RECURSIVE RunMiddleware(_)
RunMiddleware(mws) ==
    IF mws = <<>> THEN [blocked |-> FALSE, run |-> 0]
    ELSE IF Head(mws) = "returns False" THEN [blocked |-> TRUE, run |-> 1]
    ELSE [blocked |-> RunMiddleware(Tail(mws)).blocked,
          run |-> 1 + RunMiddleware(Tail(mws)).run]

\* MessageHandler.handle: text = message.text.strip(); text.startswith("/")
IsCommandText(txt) == StartsWithSlash(Strip(txt))

\* MessageHandler.handle
MessageHandle(txt) ==
    IF txt = <<>> THEN Outcome("False", <<>>, <<>>, 0)
    ELSE IF RunMiddleware(middleware).blocked
    THEN Outcome("False", <<>>, <<>>, RunMiddleware(middleware).run)
    ELSE IF IsCommandText(txt)
    THEN LET command == CommandOf(Strip(txt))
             args == ArgsOf(Strip(txt))
         IN  IF Registered(commands, command)
             THEN IF HandlerRaises(commands[command])
                  THEN Outcome("True", <<Invocation(commands[command], args)>>,
                               <<ErrorReply>>, RunMiddleware(middleware).run)
                  ELSE Outcome("True", <<Invocation(commands[command], args)>>,
                               <<>>, RunMiddleware(middleware).run)
             ELSE Outcome("True", <<>>, <<>>, RunMiddleware(middleware).run)
    ELSE \* _handle_text_message: the echo of message.text
         Outcome("True", <<>>, <<EchoReply(txt)>>, RunMiddleware(middleware).run)

\* The outcome of the last handle call is forgotten when the handler is
\* reconfigured: it described the handler as it was.
ForgetOutcome ==
    /\ hRet' = None
    /\ invoked' = <<>>
    /\ sent' = <<>>
    /\ mwRun' = 0

\* The outcome of a handle call is kept.
Keep(o) ==
    /\ hRet' = o.ret
    /\ invoked' = o.invoked
    /\ sent' = o.sent
    /\ mwRun' = o.mwRun

\* CommandHandler.register_command
CmdRegister(name, h, adminOnly) ==
    /\ IF adminOnly
       THEN /\ admin_commands' = [admin_commands EXCEPT ![Lower(name)] = h]
            /\ commands' = commands
       ELSE /\ commands' = [commands EXCEPT ![Lower(name)] = h]
            /\ admin_commands' = admin_commands
    /\ ForgetOutcome
    /\ UNCHANGED <<text, fromUser, admin_users, middleware>>
    /\ UNCHANGED nonHandler

\* CommandHandler.set_admin_users
SetAdminUsers(ids) ==
    /\ admin_users' = ids
    /\ ForgetOutcome
    /\ UNCHANGED <<text, fromUser, commands, admin_commands, middleware>>
    /\ UNCHANGED nonHandler

\* A call of CommandHandler.handle with the message.
CmdHandle ==
    /\ Keep(CommandHandle(text, fromUser))
    /\ UNCHANGED <<text, fromUser, commands, admin_commands, admin_users, middleware>>
    /\ UNCHANGED nonHandler

\* MessageHandler.register_command
MsgRegister(name, h) ==
    /\ commands' = [commands EXCEPT ![Lower(name)] = h]
    /\ ForgetOutcome
    /\ UNCHANGED <<text, fromUser, admin_commands, admin_users, middleware>>
    /\ UNCHANGED nonHandler

\* MessageHandler.add_middleware
AddMiddleware(kind) ==
    /\ Len(middleware) < MaxMiddleware
    /\ middleware' = Append(middleware, kind)
    /\ ForgetOutcome
    /\ UNCHANGED <<text, fromUser, commands, admin_commands, admin_users>>
    /\ UNCHANGED nonHandler

\* A call of MessageHandler.handle with the message.
MsgHandle ==
    /\ Keep(MessageHandle(text))
    /\ UNCHANGED <<text, fromUser, commands, admin_commands, admin_users, middleware>>
    /\ UNCHANGED nonHandler

\* No message yet.
NoMessage ==
    /\ text = <<>>
    /\ fromUser = 0

(***************************************************************************)
(* ConversationMemory                                                       *)
(***************************************************************************)

\* add_message flushes "every 5 messages".
FlushThreshold == 5

\* The most add_message calls of a run; message i of a user is the i-th one
\* added for the user.
MaxMessages == 5

\* The tasks (handler invocations) that call ConversationMemory; a task that
\* awaits the memory service is suspended and the other one may run.
MemTasks == {"t1", "t2"}

MemUsers == {"u1", "u2"}

IdleTask == [st |-> "idle", user |-> None, batch |-> <<>>]

\* ConversationMemory.__init__. A user that is not in the buffer is modelled
\* by the empty list: add_message creates it and flush_conversation treats
\* the two alike.
MemIdle ==
    /\ conversation_buffer = [u \in MemUsers |-> <<>>]
    /\ memPc = [t \in MemTasks |-> IdleTask]
    /\ msgCount = [u \in MemUsers |-> 0]
    /\ delivered = [u \in MemUsers |-> <<>>]
    /\ flushFailed = [u \in MemUsers |-> FALSE]
    /\ memService = "MemoryService"
    /\ flushedUpTo = [u \in MemUsers |-> 0]

\* The memory services a ConversationMemory is constructed with: the
\* MemoryService of the repository, whose add_conversation_memory calls the
\* synchronous client and never suspends, and a service whose
\* add_telegram_conversation awaits its I/O.
MemServices == {"MemoryService", "service that suspends"}

\* A call can start: with MemoryService a flush is not suspended, so no
\* other task runs before it has ended.
CanRun ==
    memService = "MemoryService" => \A t \in MemTasks : memPc[t].st = "idle"

RECURSIVE SumOver(_, _)
SumOver(f, S) ==
    IF S = {} THEN 0
    ELSE LET x == CHOOSE y \in S : TRUE IN f[x] + SumOver(f, S \ {x})

\* The flush test with > for >=.
NeedsFlushOffByOne(n) == n > FlushThreshold

\* add_message: len(self.conversation_buffer[user_id]) >= 5
NeedsFlush(n) == n >= FlushThreshold

\* flush_conversation up to its await: the task awaits
\* add_telegram_conversation with the buffered messages.
StartFlush(t, u, buf) ==
    memPc' = [memPc EXCEPT ![t] = [st |-> "flushing", user |-> u, batch |-> buf]]

\* ConversationMemory.add_message up to its first suspension.
AddMessage(t, u) ==
    /\ memPc[t].st = "idle"
    /\ CanRun
    /\ SumOver(msgCount, MemUsers) < MaxMessages
    /\ msgCount' = [msgCount EXCEPT ![u] = @ + 1]
    /\ conversation_buffer' =
          [conversation_buffer EXCEPT ![u] = Append(@, msgCount[u] + 1)]
    /\ IF NeedsFlush(Len(conversation_buffer[u]) + 1)
       THEN StartFlush(t, u, Append(conversation_buffer[u], msgCount[u] + 1))
       ELSE memPc' = memPc
    /\ UNCHANGED <<delivered, flushFailed, memService, flushedUpTo>>
    /\ UNCHANGED nonMem

\* ConversationMemory.flush_conversation, called directly, up to its await;
\* with an empty buffer it does nothing.
FlushConversation(t, u) ==
    /\ memPc[t].st = "idle"
    /\ CanRun
    /\ conversation_buffer[u] # <<>>
    /\ StartFlush(t, u, conversation_buffer[u])
    /\ UNCHANGED <<conversation_buffer, msgCount, delivered, flushFailed,
                   memService, flushedUpTo>>
    /\ UNCHANGED nonMem

\* add_telegram_conversation returns: the buffer is replaced by [].
FlushReturns(t) ==
    /\ memPc[t].st = "flushing"
    /\ delivered' = [delivered EXCEPT ![memPc[t].user] = Append(@, memPc[t].batch)]
    /\ conversation_buffer' = [conversation_buffer EXCEPT ![memPc[t].user] = <<>>]
    /\ flushFailed' = [flushFailed EXCEPT ![memPc[t].user] = FALSE]
    /\ flushedUpTo' = [flushedUpTo EXCEPT ![memPc[t].user] = msgCount[memPc[t].user]]
    /\ memPc' = [memPc EXCEPT ![t] = IdleTask]
    /\ UNCHANGED <<msgCount, memService>>
    /\ UNCHANGED nonMem

\* add_telegram_conversation raises (add_conversation_memory logs and
\* re-raises): the exception leaves flush_conversation and add_message, the
\* buffer stays as it is.
FlushRaises(t) ==
    /\ memPc[t].st = "flushing"
    /\ flushFailed' = [flushFailed EXCEPT ![memPc[t].user] = TRUE]
    /\ memPc' = [memPc EXCEPT ![t] = IdleTask]
    /\ UNCHANGED <<conversation_buffer, msgCount, delivered, memService,
                   flushedUpTo>>
    /\ UNCHANGED nonMem

(***************************************************************************)
(* AgentManager                                                             *)
(***************************************************************************)

\* The agent objects of the runs: d1 and e1 are the two SimpleAgents that
\* initialize creates; d2 and e2 carry the names of d1 and e1.
AgentObjs == {"d1", "e1", "d2", "e2", "u1"}

\* agent.name
AgentName(a) ==
    CASE a \in {"d1", "d2"} -> "default"
      [] a \in {"e1", "e2"} -> "echo"
      [] OTHER -> "unstartable"

\* The agent's process_message raises (an agent class other than SimpleAgent).
ProcessRaises(a) == a = "d2"

\* The agent's start raises.
StartRaises(a) == a = "u1"

\* The most register_agent calls of a run, those of initialize not counted.
MaxRegistrations == 3

\* AgentManager.__init__; BaseAgent.__init__ sets is_active = False.
AgentIdle ==
    /\ agents = <<>>
    /\ is_active = [a \in AgentObjs |-> FALSE]
    /\ regLog = <<>>
    /\ untouched = FALSE
    /\ amOp = None
    /\ asked = <<>>
    /\ responses = <<>>

\* self.agents[agent.name] = agent with every agent appended as a new item.
PutAppending(d, a) == Append(d, [name |-> AgentName(a), agent |-> a])

\* self.agents[agent.name] = agent: a name the dict holds keeps its place
\* and gets the new agent, a new name goes to the end.
Put(d, a) ==
    IF \E i \in 1..Len(d) : d[i].name = AgentName(a)
    THEN [i \in 1..Len(d) |->
            IF d[i].name = AgentName(a) THEN [d[i] EXCEPT !.agent = a] ELSE d[i]]
    ELSE Append(d, [name |-> AgentName(a), agent |-> a])

\* self.agents.values()
Values(d) == [i \in 1..Len(d) |-> d[i].agent]

RECURSIVE Select(_, _)
\* the elements of the sequence s that are in the set S, in order
Select(s, S) ==
    IF s = <<>> THEN <<>>
    ELSE IF s[1] \in S THEN <<s[1]>> \o Select(Tail(s), S)
    ELSE Select(Tail(s), S)

\* AgentManager.initialize: register_agent of two new SimpleAgents.
AmInitialize ==
    /\ amOp = None
    /\ agents' = Put(Put(agents, "d1"), "e1")
    /\ is_active' = [is_active EXCEPT !["d1"] = TRUE, !["e1"] = TRUE]
    /\ regLog' = regLog \o <<"d1", "e1">>
    /\ untouched' = TRUE
    /\ amOp' = "initialize"
    /\ asked' = <<>>
    /\ responses' = <<>>
    /\ UNCHANGED nonAgent

\* AgentManager.register_agent, called with an agent the caller made.
RegisterAgent(a) ==
    /\ a \notin {"d1", "e1"}
    /\ Len(SelectSeq(regLog, LAMBDA x : x \notin {"d1", "e1"})) < MaxRegistrations
    /\ amOp' = "register_agent"
    /\ asked' = <<>>
    /\ responses' = <<>>
    /\ IF StartRaises(a)
       THEN UNCHANGED <<agents, is_active, regLog, untouched>>
       ELSE /\ is_active' = [is_active EXCEPT ![a] = TRUE]
            /\ agents' = Put(agents, a)
            /\ regLog' = Append(regLog, a)
            /\ untouched' = FALSE
    /\ UNCHANGED nonAgent

\* BaseAgent.stop, called on one agent.
StopAgent(a) ==
    /\ is_active[a]
    /\ is_active' = [is_active EXCEPT ![a] = FALSE]
    /\ untouched' = FALSE
    /\ amOp' = "stop"
    /\ asked' = <<>>
    /\ responses' = <<>>
    /\ UNCHANGED <<agents, regLog>>
    /\ UNCHANGED nonAgent

\* AgentManager.shutdown
Shutdown ==
    /\ agents # <<>>
    /\ is_active' = [a \in AgentObjs |->
                       IF \E i \in 1..Len(agents) : agents[i].agent = a
                       THEN FALSE ELSE is_active[a]]
    /\ untouched' = FALSE
    /\ amOp' = "shutdown"
    /\ asked' = <<>>
    /\ responses' = <<>>
    /\ UNCHANGED <<agents, regLog>>
    /\ UNCHANGED nonAgent

\* AgentManager.route_message
RouteMessage ==
    /\ asked' = Select(Values(agents), {a \in AgentObjs : is_active[a]})
    /\ responses' = Select(Values(agents),
                           {a \in AgentObjs : is_active[a] /\ ~ProcessRaises(a)})
    /\ amOp' = "route_message"
    /\ UNCHANGED <<agents, is_active, regLog, untouched>>
    /\ UNCHANGED nonAgent

(***************************************************************************)
(* TelegramBot: initialize, start, stop, get_status                         *)
(***************************************************************************)

BotModes == {"polling", "webhook"}

\* The calls of the wrapped Application that start awaits, in order, and
\* those that stop awaits, in order; 0 stands for "no call raises".
StartCalls == <<"initialize", "start", "updater.start">>
StopCalls == <<"updater.stop", "stop", "shutdown">>
FailAt == 0..3

\* The call that raises, which the except clause logs.
Raising(calls, failAt) == IF failAt = 0 THEN None ELSE calls[failAt]

AppDown == [initialized |-> FALSE, running |-> FALSE, updater |-> FALSE]

\* TelegramBot.__init__
BotIdle ==
    /\ application = None
    /\ botMode = "polling"
    /\ bot_is_running = FALSE
    /\ appState = AppDown
    /\ botOp = [call |-> None, ret |-> None, raised |-> None]
    /\ lifecycle = FALSE
    /\ initializedOk = FALSE

\* The Application after the first n calls of start returned.
AfterStartCalls(app, n) ==
    [initialized |-> app.initialized \/ n >= 1,
     running |-> app.running \/ n >= 2,
     updater |-> app.updater \/ n >= 3]

\* The Application after the first n calls of stop returned.
AfterStopCalls(app, n) ==
    [updater |-> app.updater /\ n < 1,
     running |-> app.running /\ n < 2,
     initialized |-> app.initialized /\ n < 3]

\* TelegramBot.initialize. outcome: what happens inside its try block.
BotInitialize(outcome) ==
    /\ outcome \in {"ok", "builder raises", "webhook fails"}
    /\ outcome = "webhook fails" => botMode = "webhook"
    /\ application' = IF outcome = "builder raises" THEN application
                      ELSE "Application"
    /\ appState' = IF outcome = "builder raises" THEN appState ELSE AppDown
    /\ botOp' = [call |-> "initialize",
                 ret |-> IF outcome = "ok" THEN "True" ELSE "False",
                 raised |-> IF outcome = "builder raises" THEN "builder" ELSE None]
    /\ initializedOk' = (initializedOk \/ outcome = "ok")
    /\ UNCHANGED <<botMode, bot_is_running, lifecycle>>
    /\ UNCHANGED nonBot

\* TelegramBot.stop: self._is_running = False is reached.
StopClears(failAt) == application = None \/ failAt = 0

\* TelegramBot.start. failAt: the call of the Application that raises.
BotStart(failAt) ==
    /\ IF application = None
       THEN /\ failAt = 0
            /\ botOp' = [call |-> "start", ret |-> "False", raised |-> None]
            /\ UNCHANGED <<appState, bot_is_running, lifecycle>>
       ELSE /\ appState' = AfterStartCalls(appState,
                                           IF failAt = 0 THEN 3 ELSE failAt - 1)
            /\ bot_is_running' = IF failAt = 0 THEN TRUE ELSE bot_is_running
            /\ lifecycle' = IF failAt = 0 THEN TRUE ELSE lifecycle
            /\ botOp' = [call |-> "start",
                         ret |-> IF failAt = 0 THEN "True" ELSE "False",
                         raised |-> Raising(StartCalls, failAt)]
    /\ UNCHANGED <<application, botMode, initializedOk>>
    /\ UNCHANGED nonBot

\* TelegramBot.stop. failAt: the call of the Application that raises.
BotStop(failAt) ==
    /\ application = None => failAt = 0
    /\ appState' = IF application = None THEN appState
                   ELSE AfterStopCalls(appState,
                                       IF failAt = 0 THEN 3 ELSE failAt - 1)
    /\ bot_is_running' = IF StopClears(failAt) THEN FALSE ELSE bot_is_running
    /\ lifecycle' = FALSE
    /\ botOp' = [call |-> "stop", ret |-> None,
                 raised |-> Raising(StopCalls, failAt)]
    /\ UNCHANGED <<application, botMode, initializedOk>>
    /\ UNCHANGED nonBot

\* TelegramBot.get_status: the value of its 'is_running' key.
GetStatus ==
    /\ botOp' = [call |-> "get_status",
                 ret |-> IF bot_is_running THEN "True" ELSE "False",
                 raised |-> None]
    /\ UNCHANGED <<application, botMode, bot_is_running, appState, lifecycle,
                   initializedOk>>
    /\ UNCHANGED nonBot

(***************************************************************************)
(* KeyboardBuilder                                                          *)
(***************************************************************************)

\* The two keyboards of a builder: self.buttons and self.reply_buttons.
KbKinds == {"inline", "reply"}

\* The buttons of the runs (the button's text).
ButtonTexts == {"B1", "B2"}

\* The rows add_inline_row / add_reply_row are called with.
RowArgs == {<<>>, <<"B2", "B1">>}

\* The most calls made on one builder.
MaxCalls == 4

\* KeyboardBuilder.__init__
KbIdle ==
    /\ buttons = <<>>
    /\ reply_buttons = <<>>
    /\ kbLog = <<>>
    /\ built = [kind |-> None, rows |-> <<>>, none |-> TRUE]

KbRows(kind) == IF kind = "inline" THEN buttons ELSE reply_buttons

\* The assignment to self.buttons or to self.reply_buttons.
SetRows(kind, rows) ==
    IF kind = "inline"
    THEN buttons' = rows /\ UNCHANGED reply_buttons
    ELSE reply_buttons' = rows /\ UNCHANGED buttons

Logged(call, kind, arg) ==
    /\ Len(kbLog) < MaxCalls
    /\ kbLog' = Append(kbLog, [call |-> call, kind |-> kind, arg |-> arg])

\* add_inline_button / add_reply_button with the new row appended whenever
\* the last row is not empty.
WithButtonBreaking(rows, b) == Append(rows, <<b>>)

\* add_inline_button / add_reply_button: the value of the list afterwards.
WithButton(rows, b) ==
    LET rs == IF rows = <<>> THEN <<(<<>>)>> ELSE rows
    IN [rs EXCEPT ![Len(rs)] = Append(@, b)]

\* new_row / new_reply_row: the value of the list afterwards.
WithNewRow(rows) ==
    IF rows # <<>> /\ rows[Len(rows)] # <<>> THEN Append(rows, <<>>) ELSE rows

\* KeyboardBuilder.add_inline_button / add_reply_button
AddButton(kind, b) ==
    /\ Logged("add_button", kind, <<b>>)
    /\ SetRows(kind, WithButton(KbRows(kind), b))
    /\ UNCHANGED built
    /\ UNCHANGED nonKb

\* KeyboardBuilder.add_inline_row / add_reply_row
AddRow(kind, row) ==
    /\ Logged("add_row", kind, row)
    /\ SetRows(kind, Append(KbRows(kind), row))
    /\ UNCHANGED built
    /\ UNCHANGED nonKb

\* KeyboardBuilder.new_row / new_reply_row
NewRow(kind) ==
    /\ Logged("new_row", kind, <<>>)
    /\ SetRows(kind, WithNewRow(KbRows(kind)))
    /\ UNCHANGED built
    /\ UNCHANGED nonKb

\* KeyboardBuilder.build_inline / build_reply: the markup holds the rows as
\* they are at the call; None when there is no row.
Build(kind) ==
    /\ Logged("build", kind, <<>>)
    /\ built' = [kind |-> kind, rows |-> KbRows(kind),
                 none |-> KbRows(kind) = <<>>]
    /\ UNCHANGED <<buttons, reply_buttons>>
    /\ UNCHANGED nonKb

\* KeyboardBuilder.clear
Clear ==
    /\ Logged("clear", None, <<>>)
    /\ buttons' = <<>>
    /\ reply_buttons' = <<>>
    /\ UNCHANGED built
    /\ UNCHANGED nonKb

(***************************************************************************)
(* MessageFormatter.truncate_text                                           *)
(***************************************************************************)

\* The longest text and the largest max_length of the runs.
MaxTruncLen == 4
MaxLength == 4

TruncTexts == SeqsUpTo({"a", "b"}, MaxTruncLen)

Suffixes == {<<>>, <<".">>, <<".", ".", ".">>}

NotTruncated == [done |-> FALSE, value |-> <<>>]

TruncIdle ==
    /\ ttText = <<>>
    /\ ttMax = 0
    /\ ttSuffix = <<>>
    /\ ttResult = NotTruncated

\* text[:n] of Python: a negative n counts from the end.
SliceTo(s, n) ==
    IF n >= 0
    THEN SubSeq(s, 1, IF n < Len(s) THEN n ELSE Len(s))
    ELSE SubSeq(s, 1, IF Len(s) + n > 0 THEN Len(s) + n ELSE 0)

\* MessageFormatter.truncate_text
TruncateText(t, max_length, suffix) ==
    IF Len(t) <= max_length THEN t
    ELSE SliceTo(t, max_length - Len(suffix)) \o suffix

\* A call of truncate_text with the arguments of the run.
Truncate ==
    /\ ~ttResult.done
    /\ ttResult' = [done |-> TRUE, value |-> TruncateText(ttText, ttMax, ttSuffix)]
    /\ UNCHANGED <<ttText, ttMax, ttSuffix>>
    /\ UNCHANGED nonTrunc

(***************************************************************************)
(* Validators.is_valid_token                                                *)
(***************************************************************************)

\* The classes of characters the pattern tells apart: \d, ':', a letter,
\* '_' or '-', a newline, and any other character.
CharClasses == {"digit", "colon", "letter", "dash", "newline", "other"}

\* A token is given by its runs: <<class, count>> stands for count
\* characters of the class.
RunLengths == {1, 9, 10, 26, 35}
TokenRuns == CharClasses \X RunLengths

\* The most runs of a token.
MaxRuns == 3

\* len(token) < 46
MinTokenLength == 46

\* [A-Za-z0-9_-]{35}
SecretLength == 35

TokenIdle ==
    /\ token = <<>>
    /\ tokResult = None

RECURSIVE Expand(_)
\* the classes of the characters of the token, one by one
Expand(runs) ==
    IF runs = <<>> THEN <<>>
    ELSE [i \in 1..runs[1][2] |-> runs[1][1]] \o Expand(Tail(runs))

\* The number of characters of class \d at the start.
LeadingDigits(cs) ==
    IF \E i \in 1..Len(cs) : cs[i] # "digit"
    THEN (CHOOSE i \in 1..Len(cs) :
             cs[i] # "digit" /\ \A j \in 1..(i - 1) : cs[j] = "digit") - 1
    ELSE Len(cs)

\* re.match(r"^\d+:[A-Za-z0-9_-]{35}$", token); $ also matches before a
\* newline that ends the string.
MatchesPattern(cs) ==
    LET d == LeadingDigits(cs)
        end == IF cs # <<>> /\ cs[Len(cs)] = "newline"
                  /\ Len(cs) - 1 = d + 1 + SecretLength
               THEN Len(cs) - 1 ELSE Len(cs)
    IN /\ d >= 1
       /\ end = d + 1 + SecretLength
       /\ cs[d + 1] = "colon"
       /\ \A i \in (d + 2)..end : cs[i] \in {"digit", "letter", "dash"}

\* Validators.is_valid_token
IsValidToken(runs) ==
    LET cs == Expand(runs)
    IN IF cs = <<>> \/ Len(cs) < MinTokenLength THEN FALSE
       ELSE MatchesPattern(cs)

\* A call of is_valid_token with the token of the run.
ValidateToken ==
    /\ tokResult = None
    /\ tokResult' = IF IsValidToken(token) THEN "True" ELSE "False"
    /\ UNCHANGED token
    /\ UNCHANGED nonToken

(***************************************************************************)
(* TelegramBot: _handle_message, _handle_callback_query,                    *)
(* _handle_inline_query                                                     *)
(***************************************************************************)

\* The users updates come from; 0 stands for a message without from_user.
Senders == {0, 1, 2}

\* The values of BotConfig.allowed_users ({} is the default: no list).
AllowedLists == {{}, {1}, {1, 2}}

\* The most updates the Application delivers in a run.
MaxUpdates == 3

\* TelegramBot.__init__ with the default BotConfig.
GateIdle ==
    /\ allowed_users = {}
    /\ handled = 0
    /\ passed = <<>>
    /\ replied = <<>>

\* if self.config.allowed_users and user_id not in self.config.allowed_users
NotAuthorized(user) == allowed_users # {} /\ user \notin allowed_users

\* TelegramBot._handle_message; message.from_user.id raises for a message
\* without from_user and the except clause logs it.
HandleMessage(user) ==
    /\ handled < MaxUpdates
    /\ handled' = handled + 1
    /\ IF user = 0
       THEN UNCHANGED <<passed, replied>>
       ELSE IF NotAuthorized(user)
       THEN /\ replied' = Append(replied, [to |-> user, kind |-> "not authorized"])
            /\ UNCHANGED passed
       ELSE /\ passed' = Append(passed, [kind |-> "message", user |-> user])
            /\ replied' = Append(replied, [to |-> user, kind |-> "Received"])
    /\ UNCHANGED allowed_users
    /\ UNCHANGED nonGate

\* TelegramBot._handle_callback_query
HandleCallbackQuery(user) ==
    /\ handled < MaxUpdates
    /\ user # 0
    /\ handled' = handled + 1
    /\ passed' = Append(passed, [kind |-> "callback_query", user |-> user])
    /\ replied' = Append(replied, [to |-> user, kind |-> "answer"])
    /\ UNCHANGED allowed_users
    /\ UNCHANGED nonGate

\* TelegramBot._handle_inline_query
HandleInlineQuery(user) ==
    /\ handled < MaxUpdates
    /\ user # 0
    /\ handled' = handled + 1
    /\ passed' = Append(passed, [kind |-> "inline_query", user |-> user])
    /\ UNCHANGED <<allowed_users, replied>>
    /\ UNCHANGED nonGate

(***************************************************************************)
(* AsyncLock                                                                *)
(***************************************************************************)

LockKeys == {"k1", "k2"}

\* The tasks that call with_lock, each with a coroutine of its own.
LockTasks == {"t1", "t2", "t3"}

\* The most asyncio.Lock objects created in a run.
MaxLocks == 3

LockIds == 1..MaxLocks

NotCalling == [st |-> "idle", key |-> None, lock |-> 0]

\* AsyncLock.__init__
LockIdle ==
    /\ locks = [k \in LockKeys |-> 0]
    /\ lockState = [l \in LockIds |-> [locked |-> FALSE, waiters |-> <<>>]]
    /\ nextLock = 0
    /\ lkPc = [t \in LockTasks |-> NotCalling]

\* acquire without its test: a new asyncio.Lock at every call.
LockForAlwaysNew(k) == nextLock + 1

\* AsyncLock.acquire: the lock it returns, a new one when the key has none.
LockFor(k) == IF locks[k] = 0 THEN nextLock + 1 ELSE locks[k]

\* AsyncLock.with_lock up to its first suspension: acquire does not suspend;
\* "async with lock" takes a free lock that nobody waits for and the
\* coroutine starts, otherwise the task joins the lock's waiters.
WithLock(t, k) ==
    /\ lkPc[t].st = "idle"
    /\ LockFor(k) <= MaxLocks
    /\ LET l == LockFor(k)
           free == ~lockState[l].locked /\ lockState[l].waiters = <<>>
       IN /\ locks' = [locks EXCEPT ![k] = l]
          /\ nextLock' = IF l > nextLock THEN l ELSE nextLock
          /\ lockState' =
               [lockState EXCEPT ![l] =
                  IF free THEN [@ EXCEPT !.locked = TRUE]
                  ELSE [@ EXCEPT !.waiters = Append(@, t)]]
          /\ lkPc' = [lkPc EXCEPT ![t] =
                        [st |-> IF free THEN "running" ELSE "waiting",
                         key |-> k, lock |-> l]]
    /\ UNCHANGED nonLock

\* The first waiter of a released lock takes it and its coroutine starts.
LockGranted(t) ==
    /\ lkPc[t].st = "waiting"
    /\ ~lockState[lkPc[t].lock].locked
    /\ Head(lockState[lkPc[t].lock].waiters) = t
    /\ lockState' = [lockState EXCEPT ![lkPc[t].lock] =
                        [locked |-> TRUE, waiters |-> Tail(@.waiters)]]
    /\ lkPc' = [lkPc EXCEPT ![t].st = "running"]
    /\ UNCHANGED <<locks, nextLock>>
    /\ UNCHANGED nonLock

\* The coroutine returns or raises: "async with" releases the lock and
\* with_lock ends.
CoroFinishes(t) ==
    /\ lkPc[t].st = "running"
    /\ lockState' = [lockState EXCEPT ![lkPc[t].lock].locked = FALSE]
    /\ lkPc' = [lkPc EXCEPT ![t] = NotCalling]
    /\ UNCHANGED <<locks, nextLock>>
    /\ UNCHANGED nonLock

\* AsyncLock.cleanup
Cleanup(k) ==
    /\ locks[k] # 0
    /\ locks' = [locks EXCEPT ![k] = 0]
    /\ UNCHANGED <<lockState, nextLock, lkPc>>
    /\ UNCHANGED nonLock

(***************************************************************************)
(* ChatMemberService.update_chat_member                                     *)
(***************************************************************************)

\* The number of update_chat_member calls that may be in progress at once.
NumMemberCalls == 2

MemberCalls == 1..NumMemberCalls

\* The number of update_chat_member calls of a run.
MaxMemberUpdates == 3

ChatIds == {1}

MemberIds == {7, 8}

\* The (chat_id, user_id) pairs.
MemberPairs == ChatIds \X MemberIds

\* The values of the status column (models/database_models.py).
Statuses ==
    {"creator", "administrator", "member", "restricted", "left", "kicked"}

\* What datetime.utcnow() stands for in a DateTime column; None is NULL.
UtcNow == "utcnow"

NoMember ==
    [id |-> 0, chat_id |-> 0, user_id |-> 0, status |-> None,
     joined_at |-> None, left_at |-> None]

NoMemberArgs == [chat_id |-> 0, user_id |-> 0, status |-> None]

MemberIdle ==
    /\ cmService = "DatabaseService"
    /\ chat_members = {}
    /\ ucPc = [c \in MemberCalls |-> "idle"]
    /\ ucArgs = [c \in MemberCalls |-> NoMemberArgs]
    /\ ucFound = [c \in MemberCalls |-> NoMember]
    /\ ucRet = [c \in MemberCalls |-> None]
    /\ ucCount = 0
    /\ lastStatus = [p \in MemberPairs |-> None]

\* The rows select(ChatMember).where(and_(chat_id == ch, user_id == u))
\* returns.
MembersOf(ch, u) == {r \in chat_members : r.chat_id = ch /\ r.user_id = u}

\* The next value of the primary key.
NextMemberId == Cardinality(chat_members) + 1

\* "Handle status changes": whether the update branch assigns member.left_at,
\* given the row as the select loaded it.
LeftAtAssigned(member, status) ==
    \/ status = "left" /\ member.joined_at # None
    \/ status \in {"member", "administrator", "creator"} /\ member.left_at # None

\* The value the update branch assigns to member.left_at.
LeftAtUpdated(status) == IF status = "left" THEN UtcNow ELSE None

\* The row the create branch adds to the session.
NewMember(id, ch, u, status) ==
    [id |-> id, chat_id |-> ch, user_id |-> u, status |-> status,
     joined_at |-> IF status \notin {"left", "kicked"} THEN UtcNow ELSE None,
     left_at |-> IF status = "left" THEN UtcNow ELSE None]

\* update_chat_member is called: async with self.db_service.get_session().
\* DatabaseService.get_session is async def, so the call yields a coroutine,
\* which is no async context manager: TypeError.
UcCall(c, ch, u, status) ==
    /\ ucPc[c] \in {"idle", "done"}
    /\ ucCount < MaxMemberUpdates
    /\ ucCount' = ucCount + 1
    /\ ucArgs' = [ucArgs EXCEPT ![c] = [chat_id |-> ch, user_id |-> u, status |-> status]]
    /\ ucFound' = [ucFound EXCEPT ![c] = NoMember]
    /\ IF cmService = "DatabaseService"
       THEN /\ ucPc' = [ucPc EXCEPT ![c] = "done"]
            /\ ucRet' = [ucRet EXCEPT ![c] = "TypeError"]
       ELSE /\ ucPc' = [ucPc EXCEPT ![c] = "select"]
            /\ ucRet' = [ucRet EXCEPT ![c] = None]
    /\ UNCHANGED <<cmService, chat_members, lastStatus>>
    /\ UNCHANGED nonMember

\* await session.execute(select ...); scalar_one_or_none(), which raises
\* when the select returns several rows.
UcSelect(c) ==
    /\ ucPc[c] = "select"
    /\ LET rows == MembersOf(ucArgs[c].chat_id, ucArgs[c].user_id)
       IN  IF Cardinality(rows) > 1
           THEN /\ ucPc' = [ucPc EXCEPT ![c] = "done"]
                /\ ucRet' = [ucRet EXCEPT ![c] = "MultipleResultsFound"]
                /\ ucFound' = ucFound
           ELSE /\ ucPc' = [ucPc EXCEPT ![c] = "commit"]
                /\ ucRet' = ucRet
                /\ ucFound' = [ucFound EXCEPT ![c] =
                       IF rows = {} THEN NoMember ELSE CHOOSE r \in rows : TRUE]
    /\ UNCHANGED <<cmService, chat_members, ucArgs, ucCount, lastStatus>>
    /\ UNCHANGED nonMember

\* await session.commit(): the UPDATE of the columns the update branch
\* changed in the row found, or the INSERT of the new row.  The table has no
\* unique constraint on (chat_id, user_id), so the INSERT always succeeds.
UcCommit(c) ==
    /\ ucPc[c] = "commit"
    /\ LET member == ucFound[c]
           status == ucArgs[c].status
       IN  IF member.id # 0
           THEN /\ chat_members' =
                       {IF r.id = member.id
                        THEN [r EXCEPT !.status = status,
                                       !.left_at = IF LeftAtAssigned(member, status)
                                                   THEN LeftAtUpdated(status)
                                                   ELSE r.left_at]
                        ELSE r : r \in chat_members}
                /\ ucFound' = ucFound
           ELSE /\ chat_members' = chat_members \cup
                       {NewMember(NextMemberId, ucArgs[c].chat_id,
                                  ucArgs[c].user_id, status)}
                /\ ucFound' = [ucFound EXCEPT ![c] =
                       NewMember(NextMemberId, ucArgs[c].chat_id,
                                 ucArgs[c].user_id, status)]
    /\ lastStatus' = [lastStatus EXCEPT
           ![<<ucArgs[c].chat_id, ucArgs[c].user_id>>] = ucArgs[c].status]
    /\ ucPc' = [ucPc EXCEPT ![c] = "refresh"]
    /\ UNCHANGED <<cmService, ucArgs, ucRet, ucCount>>
    /\ UNCHANGED nonMember

\* await session.refresh(member); return member
UcRefresh(c) ==
    /\ ucPc[c] = "refresh"
    /\ ucPc' = [ucPc EXCEPT ![c] = "done"]
    /\ ucRet' = [ucRet EXCEPT ![c] = "ChatMember"]
    /\ UNCHANGED <<cmService, chat_members, ucArgs, ucFound, ucCount, lastStatus>>
    /\ UNCHANGED nonMember

(***************************************************************************)
(* The specifications                                                       *)
(***************************************************************************)

\* The updates of the dispatch runs: no field or one field set.
\* The groups of the dispatch, rate limiter, state machine, user service,
\* handler and conversation memory components, each at the value its
\* constructor leaves.
FirstIdle ==
    /\ MemIdle
    /\ HandlerIdle
    /\ NoMessage
    /\ UserIdle
    /\ dbService = "DatabaseService"
    /\ SmIdle
    /\ RateIdle
    /\ DispatchIdle
    /\ update = NoUpdate

\* The groups of the other components, each at the value its constructor
\* leaves.
RestIdle ==
    /\ AgentIdle
    /\ BotIdle
    /\ KbIdle
    /\ TruncIdle
    /\ TokenIdle
    /\ GateIdle
    /\ LockIdle
    /\ MemberIdle

\* Every group but that of AgentManager is idle.
BesidesAgents ==
    /\ FirstIdle
    /\ BotIdle
    /\ KbIdle
    /\ TruncIdle
    /\ TokenIdle
    /\ GateIdle
    /\ LockIdle
    /\ MemberIdle

\* Every group but that of TelegramBot is idle.
BesidesBot ==
    /\ FirstIdle
    /\ AgentIdle
    /\ KbIdle
    /\ TruncIdle
    /\ TokenIdle
    /\ GateIdle
    /\ LockIdle
    /\ MemberIdle

\* Every group but that of KeyboardBuilder is idle.
BesidesKb ==
    /\ FirstIdle
    /\ AgentIdle
    /\ BotIdle
    /\ TruncIdle
    /\ TokenIdle
    /\ GateIdle
    /\ LockIdle
    /\ MemberIdle

\* Every group but that of truncate_text is idle.
BesidesTrunc ==
    /\ FirstIdle
    /\ AgentIdle
    /\ BotIdle
    /\ KbIdle
    /\ TokenIdle
    /\ GateIdle
    /\ LockIdle
    /\ MemberIdle

\* Every group but that of is_valid_token is idle.
BesidesToken ==
    /\ FirstIdle
    /\ AgentIdle
    /\ BotIdle
    /\ KbIdle
    /\ TruncIdle
    /\ GateIdle
    /\ LockIdle
    /\ MemberIdle

\* Every group but that of the TelegramBot handlers is idle.
BesidesGate ==
    /\ FirstIdle
    /\ AgentIdle
    /\ BotIdle
    /\ KbIdle
    /\ TruncIdle
    /\ TokenIdle
    /\ LockIdle
    /\ MemberIdle

\* Every group but that of AsyncLock is idle.
BesidesLock ==
    /\ FirstIdle
    /\ AgentIdle
    /\ BotIdle
    /\ KbIdle
    /\ TruncIdle
    /\ TokenIdle
    /\ GateIdle
    /\ MemberIdle

\* Every group but that of ChatMemberService is idle.
BesidesMember ==
    /\ FirstIdle
    /\ AgentIdle
    /\ BotIdle
    /\ KbIdle
    /\ TruncIdle
    /\ TokenIdle
    /\ GateIdle
    /\ LockIdle

InitDispatch ==
    /\ MemIdle
    /\ RestIdle
    /\ HandlerIdle
    /\ NoMessage
    /\ UserIdle
    /\ dbService = "DatabaseService"
    /\ SmIdle
    /\ DispatchIdle
    /\ update \in UpdatesUpTo(1)
    /\ RateIdle

NextDispatch ==
    \/ \E t \in RegTypes, h \in HandlerIds : RegisterHandler(t, h)
    \/ ProcessUpdate

SpecDispatch == InitDispatch /\ [][NextDispatch]_vars

InitClassify ==
    /\ MemIdle
    /\ RestIdle
    /\ HandlerIdle
    /\ NoMessage
    /\ UserIdle
    /\ dbService = "DatabaseService"
    /\ SmIdle
    /\ DispatchIdle
    /\ update \in UpdatesUpTo(MaxFields)
    /\ RateIdle

NextClassify == Classify

SpecClassify == InitClassify /\ [][NextClassify]_vars

InitRate ==
    /\ MemIdle
    /\ RestIdle
    /\ HandlerIdle
    /\ NoMessage
    /\ UserIdle
    /\ dbService = "DatabaseService"
    /\ RateIdle
    /\ SmIdle
    /\ DispatchIdle
    /\ update = NoUpdate

NextRate ==
    \/ Tick
    \/ \E k \in RateKeys : CallCheckLimit(k)

SpecRate == InitRate /\ [][NextRate]_vars

InitSm ==
    /\ MemIdle
    /\ RestIdle
    /\ HandlerIdle
    /\ NoMessage
    /\ UserIdle
    /\ dbService = "DatabaseService"
    /\ SmIdle
    /\ RateIdle
    /\ DispatchIdle
    /\ update = NoUpdate

NextSm ==
    \/ \E n \in StateNames, d \in TransitionDicts : AddState(n, d)
    \/ \E k \in SmKeys, n \in StateNames : SetState(k, n)
    \/ \E k \in SmKeys, t \in Triggers : Transition(k, t)
    \/ \E k \in SmKeys : Reset(k)

SpecSm == InitSm /\ [][NextSm]_vars

InitUser ==
    /\ MemIdle
    /\ RestIdle
    /\ HandlerIdle
    /\ NoMessage
    /\ UserIdle
    /\ dbService \in DbServices
    /\ SmIdle
    /\ RateIdle
    /\ DispatchIdle
    /\ update = NoUpdate

NextUser ==
    \/ \E c \in Calls, tu \in TelegramUsers : GcCall(c, tu)
    \/ \E c \in Calls : GcSelect(c)
    \/ \E c \in Calls : GcCommit(c)
    \/ \E c \in Calls : GcRefresh(c)

SpecUser == InitUser /\ [][NextUser]_vars

OthersIdle ==
    /\ MemIdle
    /\ RestIdle
    /\ UserIdle
    /\ dbService = "DatabaseService"
    /\ SmIdle
    /\ RateIdle
    /\ DispatchIdle
    /\ update = NoUpdate

\* A CommandHandler and one message: its text and its sender.
InitCmd ==
    /\ HandlerIdle
    /\ text \in Texts
    /\ fromUser \in {0} \cup UserIds
    /\ OthersIdle

NextCmd ==
    \/ \E n \in CommandNames, h \in HandlerIds, a \in BOOLEAN : CmdRegister(n, h, a)
    \/ \E ids \in AdminLists : SetAdminUsers(ids)
    \/ CmdHandle

SpecCmd == InitCmd /\ [][NextCmd]_vars

\* A MessageHandler and one message.
InitMsg ==
    /\ HandlerIdle
    /\ text \in Texts
    /\ fromUser = 0
    /\ OthersIdle

NextMsg ==
    \/ \E n \in CommandNames, h \in HandlerIds : MsgRegister(n, h)
    \/ \E k \in MiddlewareKinds : AddMiddleware(k)
    \/ MsgHandle

SpecMsg == InitMsg /\ [][NextMsg]_vars

InitMem ==
    /\ conversation_buffer = [u \in MemUsers |-> <<>>]
    /\ memPc = [t \in MemTasks |-> IdleTask]
    /\ msgCount = [u \in MemUsers |-> 0]
    /\ delivered = [u \in MemUsers |-> <<>>]
    /\ flushFailed = [u \in MemUsers |-> FALSE]
    /\ memService \in MemServices
    /\ flushedUpTo = [u \in MemUsers |-> 0]
    /\ RestIdle
    /\ HandlerIdle
    /\ NoMessage
    /\ UserIdle
    /\ dbService = "DatabaseService"
    /\ SmIdle
    /\ RateIdle
    /\ DispatchIdle
    /\ update = NoUpdate

NextMem ==
    \/ \E t \in MemTasks, u \in MemUsers : AddMessage(t, u)
    \/ \E t \in MemTasks, u \in MemUsers : FlushConversation(t, u)
    \/ \E t \in MemTasks : FlushReturns(t)
    \/ \E t \in MemTasks : FlushRaises(t)

SpecMem == InitMem /\ [][NextMem]_vars

InitAgents == BesidesAgents /\ AgentIdle

NextAgents ==
    \/ AmInitialize
    \/ \E a \in AgentObjs : RegisterAgent(a)
    \/ \E a \in AgentObjs : StopAgent(a)
    \/ Shutdown
    \/ RouteMessage

SpecAgents == InitAgents /\ [][NextAgents]_vars

InitBot ==
    /\ BesidesBot
    /\ application = None
    /\ botMode \in BotModes
    /\ bot_is_running = FALSE
    /\ appState = AppDown
    /\ botOp = [call |-> None, ret |-> None, raised |-> None]
    /\ lifecycle = FALSE
    /\ initializedOk = FALSE

NextBot ==
    \/ \E o \in {"ok", "builder raises", "webhook fails"} : BotInitialize(o)
    \/ \E f \in FailAt : BotStart(f)
    \/ \E f \in FailAt : BotStop(f)
    \/ GetStatus

SpecBot == InitBot /\ [][NextBot]_vars

InitKb == BesidesKb /\ KbIdle

NextKb ==
    \/ \E k \in KbKinds, b \in ButtonTexts : AddButton(k, b)
    \/ \E k \in KbKinds, r \in RowArgs : AddRow(k, r)
    \/ \E k \in KbKinds : NewRow(k)
    \/ \E k \in KbKinds : Build(k)
    \/ Clear

SpecKb == InitKb /\ [][NextKb]_vars

InitTrunc ==
    /\ BesidesTrunc
    /\ ttText \in TruncTexts
    /\ ttMax \in 0..MaxLength
    /\ ttSuffix \in Suffixes
    /\ ttResult = NotTruncated

NextTrunc == Truncate

SpecTrunc == InitTrunc /\ [][NextTrunc]_vars

InitToken ==
    /\ BesidesToken
    /\ token \in SeqsUpTo(TokenRuns, MaxRuns)
    /\ tokResult = None

NextToken == ValidateToken

SpecToken == InitToken /\ [][NextToken]_vars

InitGate ==
    /\ BesidesGate
    /\ allowed_users \in AllowedLists
    /\ handled = 0
    /\ passed = <<>>
    /\ replied = <<>>

NextGate ==
    \/ \E u \in Senders : HandleMessage(u)
    \/ \E u \in Senders : HandleCallbackQuery(u)
    \/ \E u \in Senders : HandleInlineQuery(u)

SpecGate == InitGate /\ [][NextGate]_vars

InitLock == BesidesLock /\ LockIdle

\* with_lock calls only.
NextLock ==
    \/ \E t \in LockTasks, k \in LockKeys : WithLock(t, k)
    \/ \E t \in LockTasks : LockGranted(t)
    \/ \E t \in LockTasks : CoroFinishes(t)

SpecLock == InitLock /\ [][NextLock]_vars

\* with_lock and cleanup calls.
NextLockCleanup ==
    \/ NextLock
    \/ \E k \in LockKeys : Cleanup(k)

SpecLockCleanup == InitLock /\ [][NextLockCleanup]_vars

\* A ChatMemberService over either database service, and its calls, which
\* may overlap.
InitMember ==
    /\ BesidesMember
    /\ chat_members = {}
    /\ ucPc = [c \in MemberCalls |-> "idle"]
    /\ ucArgs = [c \in MemberCalls |-> NoMemberArgs]
    /\ ucFound = [c \in MemberCalls |-> NoMember]
    /\ ucRet = [c \in MemberCalls |-> None]
    /\ ucCount = 0
    /\ lastStatus = [p \in MemberPairs |-> None]
    /\ cmService \in DbServices

NextMember ==
    \/ \E c \in MemberCalls, ch \in ChatIds, u \in MemberIds, st \in Statuses :
          UcCall(c, ch, u, st)
    \/ \E c \in MemberCalls : UcSelect(c)
    \/ \E c \in MemberCalls : UcCommit(c)
    \/ \E c \in MemberCalls : UcRefresh(c)

SpecMember == InitMember /\ [][NextMember]_vars

(***************************************************************************)
(* Claims about UpdateProcessor and the type tags                           *)
(***************************************************************************)

\* C1: once process_update has returned for an update whose type is a key of
\* the registry, it has returned True and has awaited exactly the handlers
\* registered for that type, each once, in registration order (also when
\* some of them raise).
C1_DispatchesEveryHandler ==
    (puResult # "none" /\ GetUpdateType(update) \in DOMAIN handlers)
        => /\ puResult = "True"
           /\ called = handlers[GetUpdateType(update)]

\* The part of C1 the code keeps: the same, for an update whose conversion
\* to TelegramUpdate does not raise.
DispatchWhenConverted ==
    (/\ puResult # "none"
     /\ ~FromTelegramUpdate(update).raised
     /\ GetUpdateType(update) \in DOMAIN handlers)
        => /\ puResult = "True"
           /\ called = handlers[GetUpdateType(update)]

\* C6: every key of the registry that holds a handler (one register_handler
\* accepted without a warning) is the type of some update that
\* process_update dispatches, so the handler can be invoked.
C6_EveryKeyDispatchable ==
    \A k \in DOMAIN handlers :
        handlers[k] # <<>> =>
            \E u \in UpdatesUpTo(1) :
                ~FromTelegramUpdate(u).raised /\ GetUpdateType(u) = k

\* C7: for every update that converts, _get_update_type(update) and
\* from_telegram_update(update).get_update_type() name the same type.
C7_TypeTagsAgree ==
    (coreType # None /\ modelType # ConvError) => modelType = coreType

(***************************************************************************)
(* Claims about RateLimiter                                                 *)
(***************************************************************************)

\* The number of check_limit(k) calls that returned True at a time in the
\* half-open interval (t - TimeWindow, t].
GrantsInWindow(k, t) ==
    Cardinality({i \in DOMAIN granted[k] :
                    granted[k][i] > t - TimeWindow /\ granted[k][i] <= t})

\* C2: sliding window: for every key and every instant t, at most
\* max_requests check_limit(key) calls returned True in (t - time_window, t].
C2_SlidingWindowBound ==
    \A k \in RateKeys : \A t \in 0..(MaxTime + TimeWindow) :
        GrantsInWindow(k, t) <= MaxRequests

\* C2 witness: a key was denied at its limit and, after older grants had
\* left the window, granted again, while the other key was granted too.
C2_Witness ==
    \E k \in RateKeys, j \in RateKeys :
        /\ k # j
        /\ Len(granted[k]) > MaxRequests
        /\ granted[j] # <<>>
        /\ rlRet = [key |-> k, ret |-> FALSE]

\* C3 as stated: fixed window: from get_reset_time(key) on (time_window
\* after the oldest counted request) the whole count is reset, so
\* get_remaining_requests(key) returns max_requests.
C3_FixedWindowReset ==
    \A k \in RateKeys :
        (HasResetTime(k) /\ now >= GetResetTime(k))
            => GetRemainingRequests(k) = MaxRequests

\* C3 amended: the count is a sliding one: get_remaining_requests(key) is
\* max_requests less the grants of the last time_window, so at
\* get_reset_time(key) only the requests of the oldest counted time are
\* given back.
C3_SlidingRemaining ==
    \A k \in RateKeys :
        GetRemainingRequests(k) = MaxRequests - GrantsInWindow(k, now)

\* C3 witness: the clock is at get_reset_time(key) and a newer request is
\* still counted.
C3_Witness ==
    \E k \in RateKeys :
        /\ HasResetTime(k)
        /\ now = GetResetTime(k)
        /\ GetRemainingRequests(k) < MaxRequests

(***************************************************************************)
(* Claims about StateMachine                                                *)
(***************************************************************************)

\* states[cur].get(trigger) as the table holds it before the call.
EntryOf(cur, trigger) ==
    IF cur \in StateNames /\ cur \in smAdded THEN smTable[cur][trigger] ELSE NoEntry

\* C4 as stated, for non-empty state names: every transition(key, trigger)
\* call returns True and sets the key's current state to
\* states[current][trigger] when the key has a current state whose table has
\* an entry for trigger, and otherwise returns False and leaves
\* current_states unchanged; it never raises.
C4_TransitionNeverRaises ==
    [][(/\ smOp'.op = "transition"
        /\ current_states[smOp'.key] # ""
        /\ EntryOf(current_states[smOp'.key], smOp'.arg) # "")
        => IF /\ current_states[smOp'.key] # None
              /\ EntryOf(current_states[smOp'.key], smOp'.arg) # NoEntry
           THEN /\ smRet' = "True"
                /\ current_states' =
                     [current_states EXCEPT ![smOp'.key] =
                         EntryOf(current_states[smOp'.key], smOp'.arg)]
           ELSE /\ smRet' = "False"
                /\ current_states' = current_states]_vars

\* C4 amended: transition(key, trigger) returns True and moves the key to
\* states[current][trigger] when the key has a non-empty current state
\* whose table has a non-empty entry for trigger that names an added state;
\* it raises ValueError and leaves current_states unchanged when that entry
\* names a state that was never added; otherwise it returns False and
\* leaves current_states unchanged.
C4_TransitionOrValueError ==
    [][smOp'.op = "transition"
        => IF /\ Truthy(current_states[smOp'.key])
              /\ Truthy(EntryOf(current_states[smOp'.key], smOp'.arg))
           THEN IF EntryOf(current_states[smOp'.key], smOp'.arg) \in smAdded
                THEN /\ smRet' = "True"
                     /\ current_states' =
                          [current_states EXCEPT ![smOp'.key] =
                              EntryOf(current_states[smOp'.key], smOp'.arg)]
                ELSE /\ smRet' = "ValueError"
                     /\ current_states' = current_states
           ELSE /\ smRet' = "False"
                /\ current_states' = current_states]_vars

\* C4 witness: a transition call raised ValueError: the key's state has an
\* entry for the trigger and its target was never added.
C4_Witness ==
    /\ smOp.op = "transition"
    /\ smRet = "ValueError"
    /\ Truthy(current_states[smOp.key])
    /\ Truthy(EntryOf(current_states[smOp.key], smOp.arg))
    /\ EntryOf(current_states[smOp.key], smOp.arg) \notin smAdded

\* C25: after any sequence of add_state, set_state, transition and reset
\* calls, the current state of every key that has one is a state added with
\* add_state; and a set_state call with a state that was not added raises
\* ValueError and leaves the current state of every key unchanged.
C25_CurrentStateWasAdded ==
    /\ [](\A k \in SmKeys :
             current_states[k] # None => current_states[k] \in smAdded)
    /\ [][(smOp'.op = "set_state" /\ smOp'.arg \notin smAdded)
             => smRet' = "ValueError" /\ current_states' = current_states]_vars

\* C25 witness: set_state with a state that was never added raised
\* ValueError while a key had a current state.
C25_Witness ==
    /\ smOp.op = "set_state"
    /\ smOp.arg \notin smAdded
    /\ smRet = "ValueError"
    /\ \E k \in SmKeys : current_states[k] \in smAdded

(***************************************************************************)
(* Claims about UserService.get_or_create_user                              *)
(***************************************************************************)

\* C5, for a UserService whose get_session() yields a session: every call
\* that has completed returned the User row of its telegram_id, and the
\* users table holds exactly one row for that telegram_id.
C5_UpsertCompletes ==
    dbService = "session factory" =>
        \A c \in Calls :
            gcPc[c] = "done" =>
                /\ gcRet[c].out = "User"
                /\ \E r \in users :
                      r.id = gcRet[c].row /\ r.telegram_id = gcUser[c].id
                /\ Cardinality(RowsOf(gcUser[c].id)) = 1

\* The same for the repository's own DatabaseService.
UpsertCompletesWithDatabaseService ==
    dbService = "DatabaseService" =>
        \A c \in Calls : gcPc[c] = "done" => gcRet[c].out = "User"

\* What the unique constraint keeps: at most one row for each telegram_id.
OneRowPerTelegramId ==
    \A t \in TelegramIds : Cardinality(RowsOf(t)) <= 1

(***************************************************************************)
(* Claims about CommandHandler and MessageHandler                           *)
(***************************************************************************)

\* The <cmd> of a text "/<cmd>" or "/<cmd> <args>", as the text came.
ClaimedCommand == SplitOnce(Tail(text))[1]

\* The text after the first space of the text as it came ("" without one).
ClaimedArgs ==
    IF Len(SplitOnce(Tail(text))) > 1 THEN SplitOnce(Tail(text))[2] ELSE <<>>

\* The text after the first space of the stripped text.
StrippedArgs ==
    IF Len(SplitOnce(Tail(Strip(text)))) > 1
    THEN SplitOnce(Tail(Strip(text)))[2] ELSE <<>>

\* CommandHandler.handle was called with a text "/<cmd>[ <args>]" whose
\* <cmd>, lower-cased, is a regular command and no admin command.
RegularCommandHandled ==
    /\ hRet # None
    /\ StartsWithSlash(text)
    /\ Registered(commands, Lower(ClaimedCommand))
    /\ ~Registered(admin_commands, Lower(ClaimedCommand))

\* C8 as stated: for such a message the registered handler is invoked
\* exactly once with args equal to the text after the first space, the
\* handler class sends no message of its own, and handle returns True.
C8_RegularCommandInvoked ==
    RegularCommandHandled =>
        /\ invoked = <<Invocation(commands[Lower(ClaimedCommand)], ClaimedArgs)>>
        /\ sent = <<>>
        /\ hRet = "True"

\* C8 amended: the handler is invoked exactly once with args equal to the
\* text after the first space of the stripped text; if it returns, the class
\* sends nothing and handle returns True; if it raises, the class sends the
\* error reply and handle returns False.
C8_RegularCommandStripped ==
    RegularCommandHandled =>
        /\ invoked = <<Invocation(commands[Lower(ClaimedCommand)], StrippedArgs)>>
        /\ IF HandlerRaises(commands[Lower(ClaimedCommand)])
           THEN sent = <<ErrorReply>> /\ hRet = "False"
           ELSE sent = <<>> /\ hRet = "True"

\* C8 witness: "/T t" was handled by the handler registered for "t"; the
\* same name is no admin command.
C8_Witness ==
    /\ RegularCommandHandled
    /\ hRet = "True"
    /\ text = <<"/", "T", " ", "t">>
    /\ invoked = <<Invocation("hOk", <<"t">>)>>

\* MessageHandler.handle was called, no middleware returns False.
NotBlocked ==
    /\ hRet # None
    /\ \A i \in DOMAIN middleware : middleware[i] # "returns False"

\* C9 as stated: for a non-empty text that does not start with "/", when no
\* middleware returns False, handle sends exactly one message, the echo of
\* the text, and returns True.
C9_TextEchoed ==
    (NotBlocked /\ text # <<>> /\ ~StartsWithSlash(text))
        => sent = <<EchoReply(text)>> /\ hRet = "True"

\* C9 amended: the same for a non-empty text that does not start with "/"
\* once its surrounding whitespace is stripped.
C9_StrippedTextEchoed ==
    (NotBlocked /\ text # <<>> /\ ~StartsWithSlash(Strip(text)))
        => sent = <<EchoReply(text)>> /\ hRet = "True"

\* C9 witness: a text with a leading space was echoed as it came, after a
\* middleware that raised.
C9_Witness ==
    /\ NotBlocked
    /\ \E i \in DOMAIN middleware : middleware[i] = "raises"
    /\ text = <<" ", "t">>
    /\ sent = <<EchoReply(text)>>
    /\ hRet = "True"

\* The first middleware that returns False (0: there is none).
FirstBlocking ==
    IF \E i \in DOMAIN middleware : middleware[i] = "returns False"
    THEN CHOOSE i \in DOMAIN middleware :
            /\ middleware[i] = "returns False"
            /\ \A j \in 1..(i - 1) : middleware[j] # "returns False"
    ELSE 0

\* C21: the middleware run in registration order; if one returns False,
\* handle returns False at once, no middleware after it runs and neither a
\* command handler nor the echo reply is invoked; a middleware that raises
\* does not block, the next one runs.
C21_MiddlewareBlocksInOrder ==
    (hRet # None /\ text # <<>>) =>
        IF FirstBlocking # 0
        THEN /\ hRet = "False"
             /\ mwRun = FirstBlocking
             /\ invoked = <<>>
             /\ sent = <<>>
        ELSE mwRun = Len(middleware)

\* C21 witness: the first middleware returned False in front of another
\* one, for the text of a registered command: one middleware ran, no handler
\* was invoked, nothing was sent and handle returned False.
C21_Witness ==
    /\ hRet = "False"
    /\ Len(middleware) = 2
    /\ middleware[1] = "returns False"
    /\ text # <<>>
    /\ IsCommandText(text)
    /\ Registered(commands, CommandOf(Strip(text)))
    /\ mwRun = 1
    /\ invoked = <<>>
    /\ sent = <<>>

\* The message is a command registered as an admin command.
AdminCommandSent ==
    /\ hRet # None
    /\ text # <<>>
    /\ StartsWithSlash(Strip(text))
    /\ Registered(admin_commands, CommandOf(Strip(text)))

\* C16: a handler registered with admin_only=True is invoked only for a
\* sender in admin_users; for a sender that is missing or not in admin_users
\* handle invokes no handler at all, sends 'This command is for admins
\* only.' and returns True.
C16_AdminCommandsGated ==
    AdminCommandSent =>
        /\ invoked # <<>> => fromUser # 0 /\ fromUser \in admin_users
        /\ (fromUser = 0 \/ fromUser \notin admin_users) =>
              /\ invoked = <<>>
              /\ sent = <<AdminOnlyReply>>
              /\ hRet = "True"

\* C16 witness: a command registered both as an admin command and as a
\* regular one, sent by a user who is not among the admins: nothing was
\* invoked and the reply was sent.
C16_Witness ==
    /\ AdminCommandSent
    /\ Registered(commands, CommandOf(Strip(text)))
    /\ admin_users # {}
    /\ fromUser # 0
    /\ fromUser \notin admin_users
    /\ invoked = <<>>
    /\ sent = <<AdminOnlyReply>>
    /\ hRet = "True"

(***************************************************************************)
(* Claims about ConversationMemory                                          *)
(***************************************************************************)

\* No add_message or flush_conversation call is in progress.
MemQuiescent == \A t \in MemTasks : memPc[t].st = "idle"

\* C10 as stated: whenever no call is in progress every user's buffer holds
\* at most 4 messages, also when the memory service fails.
C10_BufferAtMostFour ==
    MemQuiescent =>
        \A u \in MemUsers : Len(conversation_buffer[u]) <= FlushThreshold - 1

\* C10 amended: whenever no call is in progress a user's buffer holds at
\* most 4 messages unless the last flush that ended for that user raised.
C10_BufferAtMostFourUnlessFailed ==
    MemQuiescent =>
        \A u \in MemUsers :
            Len(conversation_buffer[u]) <= FlushThreshold - 1 \/ flushFailed[u]

\* C10 witness: the fifth message started a flush, the flush raised, and no
\* call is in progress: the 5 messages are still in the buffer.
C10_Witness ==
    /\ MemQuiescent
    /\ \E u \in MemUsers :
          flushFailed[u] /\ Len(conversation_buffer[u]) >= FlushThreshold

(***************************************************************************)
(* Claims about AgentManager                                                *)
(***************************************************************************)

RECURSIVE FirstOccurrences(_)
\* the sequence s without the repetitions of its elements
FirstOccurrences(s) ==
    IF s = <<>> THEN <<>>
    ELSE LET front == FirstOccurrences(SubSeq(s, 1, Len(s) - 1))
             last == s[Len(s)]
         IN IF \E i \in 1..(Len(s) - 1) : s[i] = last THEN front
            ELSE Append(front, last)

\* The agents that answer when asked.
Answering == {a \in AgentObjs : is_active[a] /\ ~ProcessRaises(a)}

\* The agent registered last under the name n.
HolderOf(n) ==
    regLog[CHOOSE i \in 1..Len(regLog) :
             /\ AgentName(regLog[i]) = n
             /\ \A j \in (i + 1)..Len(regLog) : AgentName(regLog[j]) # n]

\* The names registered, in the order of their first registration.
NamesRegistered ==
    FirstOccurrences([i \in 1..Len(regLog) |-> AgentName(regLog[i])])

\* initialize() has run: it is the only call that registers d1.
Initialized == regLog # <<>> /\ regLog[1] = "d1"

\* C11 as stated: route_message returns one response for each registered
\* agent that is active and does not raise, in registration order, and after
\* initialize() the result is non-empty.
C11_OneResponsePerRegisteredAgent ==
    amOp = "route_message" =>
        /\ responses = Select(FirstOccurrences(regLog), Answering)
        /\ (Initialized => responses # <<>>)

\* C11 amended: route_message returns one response for each registered name
\* whose agent (the one registered last under the name) is active and does
\* not raise, in the order the names were first registered; a raising agent
\* is asked and the agents after it are asked too; right after initialize()
\* the result is non-empty.
C11_OneResponsePerRegisteredName ==
    amOp = "route_message" =>
        LET held == [i \in 1..Len(NamesRegistered) |-> HolderOf(NamesRegistered[i])]
        IN /\ responses = Select(held, Answering)
           /\ asked = Select(held, {a \in AgentObjs : is_active[a]})
           /\ (untouched => responses # <<>>)

\* C11 witness: route_message asked an agent that raised and returned the
\* response of an agent registered under a later name, while an agent that
\* was replaced under its name is still active.
C11_Witness ==
    /\ amOp = "route_message"
    /\ \E i, j \in 1..Len(asked) :
          /\ i < j
          /\ ProcessRaises(asked[i])
          /\ \E k \in 1..Len(responses) : responses[k] = asked[j]
    /\ \E a \in AgentObjs :
          /\ is_active[a]
          /\ \E i \in 1..Len(regLog) : regLog[i] = a
          /\ \A i \in 1..Len(agents) : agents[i].agent # a

\* C26: after shutdown() returns, every agent that register_agent ever
\* started has is_active False, an agent whose name was later registered
\* again by another agent included, and a route_message call that follows
\* returns an empty list.
C26_ShutdownStopsEveryAgent ==
    /\ [](amOp = "shutdown" =>
             \A i \in DOMAIN regLog : ~is_active[regLog[i]])
    /\ [][(amOp = "shutdown" /\ amOp' = "route_message")
             => responses' = <<>>]_vars

(***************************************************************************)
(* Claims about the TelegramBot lifecycle                                   *)
(***************************************************************************)

\* C12: get_status()['is_running'] is False until a start() call returns
\* True, True after one did, and False again after any stop() call has
\* returned, whichever call of the wrapped Application fails.
C12_IsRunningFollowsLifecycle ==
    botOp.call = "get_status" => (botOp.ret = "True") = lifecycle

\* C22: start() returns True and sets is_running only if an earlier
\* initialize() call returned True; after no initialize() or after an
\* initialize() that returned False, start() returns False and starts
\* nothing.
C22_StartOnlyAfterInitialize ==
    /\ bot_is_running => initializedOk
    /\ (botOp.call = "start" /\ ~initializedOk) =>
          botOp.ret = "False" /\ appState = AppDown

(***************************************************************************)
(* Claims about KeyboardBuilder                                             *)
(***************************************************************************)

RECURSIVE Flatten(_)
\* the buttons of the rows, row after row
Flatten(rows) == IF rows = <<>> THEN <<>> ELSE rows[1] \o Flatten(Tail(rows))

RECURSIVE SinceClear(_)
\* the calls made after the last clear()
SinceClear(log) ==
    IF log = <<>> THEN <<>>
    ELSE IF log[Len(log)].call = "clear" THEN <<>>
    ELSE Append(SinceClear(SubSeq(log, 1, Len(log) - 1)), log[Len(log)])

\* The calls that add to the keyboard of the kind k, made since the last
\* clear(), in order.
Adding(k) ==
    SelectSeq(SinceClear(kbLog),
              LAMBDA e : e.kind = k /\ e.call \in {"add_button", "add_row", "new_row"})

\* The buttons come out in the order they went in.
OrderKept(k) ==
    Flatten(KbRows(k)) =
        Flatten([i \in 1..Len(Adding(k)) |-> Adding(k)[i].arg])

\* build_inline / build_reply returned the rows of the builder.
BuildReturnsRows(k) ==
    (kbLog # <<>> /\ kbLog[Len(kbLog)].call = "build" /\ kbLog[Len(kbLog)].kind = k)
        => built.kind = k /\ built.rows = KbRows(k)

\* The button of the last call, when that call is add_inline_button /
\* add_reply_button.
LastIsButton(k) ==
    Adding(k) # <<>> /\ Adding(k)[Len(Adding(k))].call = "add_button"

\* C13: insertion order is kept, build returns the rows (None when there is
\* none), and add_inline_button appends to the last row: as the first call
\* after new_row() its button is alone in a new last row, after another
\* button it follows that button in the row, after add_inline_row it
\* follows the buttons of that row (the same for the reply keyboard).
C13_ButtonAppendsToLastRow ==
    \A k \in KbKinds :
        /\ OrderKept(k)
        /\ BuildReturnsRows(k)
        /\ (kbLog # <<>> /\ kbLog[Len(kbLog)].call = "build")
              => (built.none <=> KbRows(built.kind) = <<>>)
        /\ LET L == Adding(k)
               n == Len(L)
               last == KbRows(k)[Len(KbRows(k))]
           IN LastIsButton(k) =>
                 /\ KbRows(k) # <<>>
                 /\ IF n = 1 \/ L[n - 1].call = "new_row"
                    THEN last = L[n].arg
                    ELSE IF L[n - 1].call = "add_row"
                    THEN last = L[n - 1].arg \o L[n].arg
                    ELSE /\ Len(last) >= 2
                         /\ SubSeq(last, Len(last) - 1, Len(last))
                              = L[n - 1].arg \o L[n].arg

\* C13 witness: button, new_row, button, build gave two rows of one button
\* each.
C13_Witness ==
    \E k \in KbKinds :
        /\ Len(kbLog) = 4
        /\ \A i \in 1..4 : kbLog[i].kind = k
        /\ [i \in 1..4 |-> kbLog[i].call]
             = <<"add_button", "new_row", "add_button", "build">>
        /\ built.kind = k
        /\ Len(built.rows) = 2
        /\ Len(built.rows[1]) = 1
        /\ Len(built.rows[2]) = 1

(***************************************************************************)
(* Claims about truncate_text and is_valid_token                            *)
(***************************************************************************)

\* s ends with suffix
EndsWith(s, suffix) ==
    /\ Len(s) >= Len(suffix)
    /\ SubSeq(s, Len(s) - Len(suffix) + 1, Len(s)) = suffix

\* C14: for every text, every max_length >= 0 and every suffix the result
\* of truncate_text has at most max_length characters, is the text itself
\* when the text has at most max_length characters, and otherwise ends with
\* the suffix.
C14_TruncatesToMaxLength ==
    ttResult.done =>
        /\ Len(ttResult.value) <= ttMax
        /\ Len(ttText) <= ttMax => ttResult.value = ttText
        /\ Len(ttText) > ttMax => EndsWith(ttResult.value, ttSuffix)

\* The token is a run of digits, a colon and a secret of letters and digits.
WellFormed(cs) ==
    LET d == LeadingDigits(cs)
    IN /\ d >= 1
       /\ Len(cs) >= d + 2
       /\ cs[d + 1] = "colon"
       /\ \A i \in (d + 2)..Len(cs) : cs[i] \in {"digit", "letter"}

\* The token of the test: a 10-digit id, a colon, a 26-character secret.
TestToken == <<(<<"digit", 10>>), (<<"colon", 1>>), (<<"letter", 26>>)>>

\* C15: is_valid_token returns True for a well-formed token (a run of
\* digits, a colon, an alphanumeric secret), in particular for the token of
\* the test, and False for the empty string and for a string without a
\* colon.
C15_WellFormedTokenValid ==
    tokResult # None =>
        LET cs == Expand(token)
        IN /\ WellFormed(cs) => tokResult = "True"
           /\ token = TestToken => tokResult = "True"
           /\ cs = <<>> => tokResult = "False"
           /\ (\A i \in 1..Len(cs) : cs[i] # "colon") => tokResult = "False"

(***************************************************************************)
(* Claims about the allowed_users list                                      *)
(***************************************************************************)

\* C17: when allowed_users is non-empty, no update from a user outside
\* allowed_users is passed to process_update, whatever the kind of update.
C17_OnlyAllowedUsersProcessed ==
    allowed_users # {} =>
        \A i \in 1..Len(passed) : passed[i].user \in allowed_users

(***************************************************************************)
(* Claims about AsyncLock                                                   *)
(***************************************************************************)

\* The tasks whose coroutine, supplied for the key k, is running.
RunningFor(k) == {t \in LockTasks : lkPc[t].st = "running" /\ lkPc[t].key = k}

\* C18: without cleanup, at most one of the coroutines supplied for the same
\* key is running at any time.
C18_OneRunningPerKey ==
    \A k \in LockKeys : Cardinality(RunningFor(k)) <= 1

\* C18 witness: coroutines for two different keys run at the same time
\* while a third with_lock call waits for one of the two locks.
C18_Witness ==
    /\ \A k \in LockKeys : RunningFor(k) # {}
    /\ \E t \in LockTasks : lkPc[t].st = "waiting"

\* C19: with cleanup, a with_lock(key, .) call made after cleanup(key) does
\* not run its coroutine while a coroutine started earlier for the key is
\* still running.
C19_CleanupKeepsExclusion ==
    \A t, u \in LockTasks :
        (/\ t # u
         /\ lkPc[t].st = "running"
         /\ lkPc[u].st = "running"
         /\ lkPc[t].key = lkPc[u].key)
        => lkPc[t].lock = lkPc[u].lock /\ lkPc[t].lock = locks[lkPc[t].key]

(***************************************************************************)
(* Claims about the messages ConversationMemory stores                      *)
(***************************************************************************)

\* All the messages add_telegram_conversation stored for the user, call
\* after call.
AllDelivered(u) == Flatten(delivered[u])

\* C20: every message passed to add_message is included in exactly one
\* successful add_telegram_conversation call for its user, in the order it
\* was added, once a flush for that user has succeeded after it, also when
\* a flush fails and is retried and when add_message calls interleave with a
\* flush in progress.
C20_NoMessageLostOrDuplicated ==
    \A u \in MemUsers :
        /\ \A m \in 1..flushedUpTo[u] :
              Cardinality({i \in 1..Len(AllDelivered(u)) : AllDelivered(u)[i] = m}) = 1
        /\ \A i, j \in 1..Len(AllDelivered(u)) :
              i < j => AllDelivered(u)[i] < AllDelivered(u)[j]

\* With the MemoryService of the repository, whose flush is never
\* suspended, no message is lost or stored twice, whatever fails.
NoMessageLostWithMemoryService ==
    memService = "MemoryService" => C20_NoMessageLostOrDuplicated

(***************************************************************************)
(* Claims about ChatMemberService.update_chat_member                        *)
(***************************************************************************)

\* C23, for a ChatMemberService whose get_session() yields a session: in
\* every interleaving of update_chat_member calls the chat_members table
\* holds at most one row for each (chat_id, user_id), and no call fails on
\* finding several rows.
C23_OneRowPerPair ==
    cmService = "session factory" =>
        /\ \A p \in MemberPairs : Cardinality(MembersOf(p[1], p[2])) <= 1
        /\ \A c \in MemberCalls : ucRet[c] # "MultipleResultsFound"

\* The update_chat_member calls so far ran one after another (each through
\* the first call slot), and the last of them has returned.
CallsInSequence ==
    /\ ucPc[1] \in {"idle", "done"}
    /\ \A c \in MemberCalls : c # 1 => ucPc[c] = "idle"

\* C24, for a ChatMemberService whose get_session() yields a session: after
\* any sequence of update_chat_member calls for one pair, the left_at of the
\* pair's row is set exactly when the most recent status is 'left'.
C24_LeftAtIffLeft ==
    (cmService = "session factory" /\ CallsInSequence) =>
        \A p \in MemberPairs :
            \A r \in MembersOf(p[1], p[2]) :
                r.left_at # None <=> lastStatus[p] = "left"

====
